---- MODULE Spec2Model ----
(***************************************************************************)
(* Matching and settlement core of the x-traders exchange, one symbol:     *)
(* the order book, the price-time matcher, the symbol order processor and  *)
(* its inbox, the order / trade / ledger / position / outbox tables and    *)
(* the submit, cancel and expiration paths that feed the processor.        *)
(*                                                                         *)
(* The durable tables (orders, trades, ledger, positions, outbox,          *)
(* last_sequence) always hold COMMITTED state: a transaction works on a    *)
(* private copy (TxDb) that replaces them on commit and is dropped on      *)
(* rollback.  The book (bids, asks, last_price_in_cents) is the in-memory  *)
(* state of the processor and is mutated in place, as in the code.         *)
(***************************************************************************)
EXTENDS Integers, Sequences, FiniteSets, TLC

(* ------------------------------ bounds -------------------------------- *)
MaxOrders == 3      \* rows of the orders table under Spec
MaxRaceOrders == 2  \* rows of the orders table under SpecCancel
MaxQty == 2         \* largest order quantity
MaxPrice == 2       \* largest limit price (cents)
MaxCancels == 1     \* cancel messages ever enqueued
MaxRecancels == 2   \* cancel messages ever enqueued under SpecRecancel
MaxFaults == 1      \* failures injected in one run
MaxRestarts == 1    \* restarts of the router in one run
MaxFeedOrders == 4  \* rows of the orders table under SpecPublish
MaxOtherOrders == 1 \* orders of the second symbol
MaxSeeds == 1       \* runs of the treasury seeding after Init
MaxHeld == 4        \* largest position quantity the position calls build up
InitCash == 4       \* funding of trader "A" (cents)
InitShares == 1     \* shares issued to the treasury "B"

Traders == {"A", "B"}
Workers == {"w1", "w2"}   \* MarketDataPublisher instances
Prices == 1..MaxPrice
Quantities == 1..MaxQty
None == 0           \* Python None of limit_price / last_price_in_cents
NoTx == [sequence |-> None]   \* no open transaction

LiveStatuses == {"PENDING", "PARTIAL"}
TerminalStatuses == {"FILLED", "CANCELLED", "EXPIRED"}

VARIABLES
    orders,               \* table orders: sequence, order_id = index
    last_sequence,        \* table sequence_counters (row of the symbol)
    trades,               \* table trades
    ledger,               \* table ledger_entries
    positions,            \* table positions: trader -> row of the symbol
    outbox,               \* table market_data_outbox
    bids, asks,           \* OrderBook.bids / asks: price -> FIFO of entries
    last_price_in_cents,  \* OrderBook.last_price_in_cents
    order_queue,          \* SymbolOrderProcessor.order_queue
    inflight,             \* orders committed by _submit_order, not yet enqueued
    cancels_sent,         \* cancel messages enqueued so far
    claimed,              \* publisher worker -> outbox rows it holds FOR UPDATE
    cursor,               \* publisher worker -> events of its batch sent so far
    channel,              \* pub/sub channel: the events sent, in sending order
    faults,               \* failures injected so far
    tx,                   \* submitter -> order row of its open transaction
    expired,              \* orders whose expires_at has passed
    restarts,             \* restarts of the router so far
    suspended,            \* book before the match of the open transaction
    other,                \* rows, counter, book and inbox of a second symbol
    starting,             \* OrderRouter.initialize is awaiting the rebuild
    seeds                 \* runs of the treasury seeding since Init

vars == <<orders, last_sequence, trades, ledger, positions, outbox, bids, asks,
          last_price_in_cents, order_queue, inflight, cancels_sent,
          claimed, cursor, channel, faults, tx, expired, restarts,
          suspended, other,
                   starting, seeds>>

dbVars == <<orders, last_sequence, trades, ledger, positions, outbox>>
bookVars == <<bids, asks, last_price_in_cents>>
pubVars == <<claimed, cursor, channel>>
sideVars == <<pubVars, faults, tx, expired, restarts, suspended, other,
                   starting, seeds>>

(* ------------------------------ helpers ------------------------------- *)
Min(a, b) == IF a <= b THEN a ELSE b

(* the element of a one-element set; "Only({e(x) : x \in {v}})" is e with  *)
(* the intermediate result v computed once                                 *)
Only(S) == CHOOSE x \in S : TRUE

(* sum(o.remaining_quantity for o in level)                                *)
RECURSIVE SumRemaining(_)
SumRemaining(level) ==
    IF level = <<>> THEN 0
    ELSE Head(level).remaining_quantity + SumRemaining(Tail(level))

EmptySide == [p \in {} |-> <<>>]

(* a book that serves the worst price first                                *)
LastKey(book_side, maker_side) ==
    IF maker_side = "SELL"
    THEN CHOOSE p \in DOMAIN book_side : \A q \in DOMAIN book_side : p >= q
    ELSE CHOOSE p \in DOMAIN book_side : \A q \in DOMAIN book_side : p <= q

(* SortedDict.keys()[0]: lowest ask, highest bid (key function -x)         *)
FirstKey(book_side, maker_side) ==
    IF maker_side = "SELL"
    THEN CHOOSE p \in DOMAIN book_side : \A q \in DOMAIN book_side : p <= q
    ELSE CHOOSE p \in DOMAIN book_side : \A q \in DOMAIN book_side : p >= q

OppositeSide(side) == IF side = "BUY" THEN "SELL" ELSE "BUY"

DelLevel(book_side, p) == [q \in (DOMAIN book_side) \ {p} |-> book_side[q]]

SetLevel(book_side, p, level) ==
    [q \in (DOMAIN book_side) \cup {p} |-> IF q = p THEN level ELSE book_side[q]]

(* ------------------------- order_book_matcher ------------------------- *)
CreateTrade(taker, maker_entry, quantity, price) ==
    IF taker.side = "BUY"
    THEN [buy_order_id |-> taker.order_id, sell_order_id |-> maker_entry.order_id,
          price_in_cents |-> price, quantity |-> quantity,
          buyer_id |-> taker.trader_id, seller_id |-> maker_entry.trader_id,
          taker_order_id |-> taker.order_id, maker_order_id |-> maker_entry.order_id]
    ELSE [buy_order_id |-> maker_entry.order_id, sell_order_id |-> taker.order_id,
          price_in_cents |-> price, quantity |-> quantity,
          buyer_id |-> maker_entry.trader_id, seller_id |-> taker.trader_id,
          taker_order_id |-> taker.order_id, maker_order_id |-> maker_entry.order_id]

(* the for-loop of _match_at_price_level over the copied level: rest is    *)
(* what is still to visit, kept the visited makers left in the level       *)
RECURSIVE LevelLoop(_, _, _, _, _, _)
LevelLoop(taker, price, rest, kept, remaining_qty, trs) ==
    IF rest = <<>> \/ remaining_qty <= 0
    THEN [level |-> kept \o rest, remaining |-> remaining_qty, trades |-> trs]
    ELSE LET maker_entry == Head(rest)
             fill_qty == Min(remaining_qty, maker_entry.remaining_quantity)
             left == maker_entry.remaining_quantity - fill_qty
             updated == [maker_entry EXCEPT !.remaining_quantity = left]
         IN LevelLoop(taker, price, Tail(rest),
                      IF left = 0 THEN kept ELSE Append(kept, updated),
                      remaining_qty - fill_qty,
                      Append(trs, CreateTrade(taker, maker_entry, fill_qty, price)))

MatchAtPriceLevel(taker, opposite_book, price, remaining_qty) ==
    IF price \notin DOMAIN opposite_book
    THEN [book |-> opposite_book, remaining |-> remaining_qty, trades |-> <<>>]
    ELSE LET r == LevelLoop(taker, price, opposite_book[price], <<>>,
                            remaining_qty, <<>>)
         IN [book |-> IF r.level = <<>> THEN DelLevel(opposite_book, price)
                      ELSE SetLevel(opposite_book, price, r.level),
             remaining |-> r.remaining, trades |-> r.trades]

(* a limit loop that never breaks on the price                             *)
CrossesAlways(taker, best_price) == TRUE

Crosses(taker, best_price) ==
    IF taker.side = "BUY" THEN ~(best_price > taker.limit_price)
    ELSE ~(best_price < taker.limit_price)

RECURSIVE MatchLimitLoop(_, _, _, _)
MatchLimitLoop(taker, opposite_book, remaining, trs) ==
    IF ~(remaining > 0 /\ DOMAIN opposite_book # {})
    THEN [book |-> opposite_book, remaining |-> remaining, trades |-> trs]
    ELSE LET best_price == FirstKey(opposite_book, OppositeSide(taker.side))
         IN IF ~Crosses(taker, best_price)
            THEN [book |-> opposite_book, remaining |-> remaining, trades |-> trs]
            ELSE Only({ MatchLimitLoop(taker, r.book, r.remaining, trs \o r.trades) :
                        r \in {MatchAtPriceLevel(taker, opposite_book, best_price,
                                                 remaining)} })

MatchLimitOrder(taker, opposite_book) ==
    MatchLimitLoop(taker, opposite_book, taker.quantity - taker.filled_quantity, <<>>)

RECURSIVE MatchAggressiveLoop(_, _, _, _)
MatchAggressiveLoop(taker, opposite_book, remaining, trs) ==
    IF ~(remaining > 0 /\ DOMAIN opposite_book # {})
    THEN [book |-> opposite_book, remaining |-> remaining, trades |-> trs]
    ELSE LET best_price == FirstKey(opposite_book, OppositeSide(taker.side))
         IN Only({ MatchAggressiveLoop(taker, r.book, r.remaining, trs \o r.trades) :
                     r \in {MatchAtPriceLevel(taker, opposite_book, best_price,
                                              remaining)} })

(* a sweep that stops after the best price level                           *)
MatchAggressiveOneLevel(taker, opposite_book) ==
    IF DOMAIN opposite_book = {}
    THEN [book |-> opposite_book,
          remaining |-> taker.quantity - taker.filled_quantity, trades |-> <<>>]
    ELSE MatchAtPriceLevel(taker, opposite_book,
                           FirstKey(opposite_book, OppositeSide(taker.side)),
                           taker.quantity - taker.filled_quantity)

MatchAggressive(taker, opposite_book) ==
    MatchAggressiveLoop(taker, opposite_book,
                        taker.quantity - taker.filled_quantity, <<>>)

(* match_order: the trades, the remaining quantity handed to the caller,   *)
(* the opposite side after matching, and whether _match_ioc_order wrote    *)
(* EXPIRED / IOC_UNFILLED onto the order object                            *)
MatchOrder(taker, opposite_book) ==
    LET r == IF taker.order_type = "LIMIT" THEN MatchLimitOrder(taker, opposite_book)
             ELSE MatchAggressive(taker, opposite_book)
    IN IF taker.order_type = "IOC"
       THEN [book |-> r.book, trades |-> r.trades, remaining |-> 0,
             ioc_unfilled |-> r.remaining > 0]
       ELSE [book |-> r.book, trades |-> r.trades, remaining |-> r.remaining,
             ioc_unfilled |-> FALSE]

(* an add_order that puts the entry at the head of its price level         *)
AddOrderToBookFirst(book_side, order) ==
    IF order.order_type # "LIMIT" \/ order.filled_quantity >= order.quantity
    THEN book_side
    ELSE LET entry == [order_id |-> order.order_id, trader_id |-> order.trader_id,
                       remaining_quantity |-> order.quantity - order.filled_quantity,
                       price_in_cents |-> order.limit_price,
                       sequence |-> order.sequence]
             old == IF order.limit_price \in DOMAIN book_side
                    THEN book_side[order.limit_price] ELSE <<>>
         IN SetLevel(book_side, order.limit_price, <<entry>> \o old)

(* OrderBook.add_order behind OrderBookMatcher.add_order_to_book           *)
AddOrderToBook(book_side, order) ==
    IF order.order_type # "LIMIT" \/ order.filled_quantity >= order.quantity
    THEN book_side
    ELSE LET entry == [order_id |-> order.order_id, trader_id |-> order.trader_id,
                       remaining_quantity |-> order.quantity - order.filled_quantity,
                       price_in_cents |-> order.limit_price,
                       sequence |-> order.sequence]
             old == IF order.limit_price \in DOMAIN book_side
                    THEN book_side[order.limit_price] ELSE <<>>
         IN SetLevel(book_side, order.limit_price, Append(old, entry))

(* OrderBook.remove_order behind OrderBookMatcher.cancel_order: pops the   *)
(* first entry of the level that carries the order id                      *)
RECURSIVE RemoveFirst(_, _)
RemoveFirst(level, order_id) ==
    IF level = <<>> THEN <<>>
    ELSE IF Head(level).order_id = order_id THEN Tail(level)
    ELSE <<Head(level)>> \o RemoveFirst(Tail(level), order_id)

RemoveOrder(book_side, order) ==
    IF order.order_type # "LIMIT" \/ order.limit_price \notin DOMAIN book_side
    THEN book_side
    ELSE LET level == RemoveFirst(book_side[order.limit_price], order.order_id)
         IN IF level = <<>> THEN DelLevel(book_side, order.limit_price)
            ELSE SetLevel(book_side, order.limit_price, level)

(* OrderBook.get_book_state                                                *)
BookState(b, a) ==
    [best_bid_in_cents |-> IF DOMAIN b = {} THEN None ELSE FirstKey(b, "BUY"),
     best_ask_in_cents |-> IF DOMAIN a = {} THEN None ELSE FirstKey(a, "SELL"),
     bid_size |-> IF DOMAIN b = {} THEN None
                  ELSE SumRemaining(b[FirstKey(b, "BUY")]),
     ask_size |-> IF DOMAIN a = {} THEN None
                  ELSE SumRemaining(a[FirstKey(a, "SELL")])]

(* ------------------------------ repositories -------------------------- *)
(* the tables as one transaction sees them; failed is set by a raise       *)
TxDb(os, ps, ts, led, ob, lp) ==
    [orders |-> os, positions |-> ps, trades |-> ts, ledger |-> led,
     outbox |-> ob, last_price |-> lp, failed |-> FALSE]

(* a posting that books the buyer's rows and leaves out the seller's       *)
PostTradeEntriesBuyerOnly(led, trade) ==
    led \o
    << [trade_id |-> trade.trade_id, trader_id |-> trade.buyer_id, account |-> "CASH",
        debit |-> trade.price_in_cents * trade.quantity, credit |-> 0],
       [trade_id |-> trade.trade_id, trader_id |-> trade.buyer_id, account |-> "SHARES",
        debit |-> trade.quantity, credit |-> 0] >>

(* LedgerRepository.post_trade_entries_without_commit                      *)
PostTradeEntries(led, trade) ==
    led \o
    << [trade_id |-> trade.trade_id, trader_id |-> trade.buyer_id, account |-> "CASH",
        debit |-> trade.price_in_cents * trade.quantity, credit |-> 0],
       [trade_id |-> trade.trade_id, trader_id |-> trade.seller_id, account |-> "CASH",
        debit |-> 0, credit |-> trade.price_in_cents * trade.quantity],
       [trade_id |-> trade.trade_id, trader_id |-> trade.buyer_id, account |-> "SHARES",
        debit |-> trade.quantity, credit |-> 0],
       [trade_id |-> trade.trade_id, trader_id |-> trade.seller_id, account |-> "SHARES",
        debit |-> 0, credit |-> trade.quantity] >>

(* LedgerRepository.initialize_trader_cash_without_commit                  *)
InitializeTraderCash(led, trader_id, initial_cash_in_cents) ==
    Append(led, [trade_id |-> None, trader_id |-> trader_id, account |-> "CASH",
                 debit |-> initial_cash_in_cents, credit |-> 0])

(* sum(debit) - sum(credit) over the rows of one trader and account        *)
RECURSIVE Balance(_, _, _)
Balance(led, trader_id, account) ==
    IF led = <<>> THEN 0
    ELSE (IF Head(led).trader_id = trader_id /\ Head(led).account = account
          THEN Head(led).debit - Head(led).credit ELSE 0)
         + Balance(Tail(led), trader_id, account)

(* LedgerRepository.get_cash_balance_in_cents / get_share_balance          *)
GetCashBalance(led, trader_id) == Balance(led, trader_id, "CASH")
GetShareBalance(led, trader_id) == Balance(led, trader_id, "SHARES")

(* an update_for_buy that takes the price of the last buy as average cost  *)
UpdateForBuyLastPrice(ps, trader_id, quantity, price_in_cents) ==
    [ps EXCEPT ![trader_id] =
        [exists |-> TRUE, quantity |-> ps[trader_id].quantity + quantity,
         avg_cost |-> price_in_cents]]

(* PositionRepository.update_for_buy_without_commit                        *)
UpdateForBuy(ps, trader_id, quantity, price_in_cents) ==
    LET position == ps[trader_id]
        new_qty == position.quantity + quantity
        new_avg == IF new_qty > 0
                   THEN ((position.quantity * position.avg_cost)
                         + (quantity * price_in_cents)) \div new_qty
                   ELSE 0
    IN IF position.exists
       THEN [ps EXCEPT ![trader_id] =
                [exists |-> TRUE, quantity |-> new_qty, avg_cost |-> new_avg]]
       ELSE [ps EXCEPT ![trader_id] =
                [exists |-> TRUE, quantity |-> quantity, avg_cost |-> price_in_cents]]

(* an update_for_sell without the check of the held quantity               *)
SellNeverRaises(ps, trader_id, quantity) == FALSE

(* PositionRepository.update_for_sell_without_commit: raises when the      *)
(* position is missing or too small                                        *)
SellRaises(ps, trader_id, quantity) ==
    ~ps[trader_id].exists \/ ps[trader_id].quantity < quantity

UpdateForSell(ps, trader_id, quantity) ==
    [ps EXCEPT ![trader_id].quantity = @ - quantity]

(* OrderRepository.update_filled_without_commit                            *)
FilledRaises(os, order_id, fill_quantity) ==
    os[order_id].filled_quantity + fill_quantity > os[order_id].quantity

(* an update_filled that leaves SELL orders as they are                    *)
UpdateFilledSkipsSell(os, order_id, fill_quantity) ==
    LET new_filled == os[order_id].filled_quantity + fill_quantity
    IN IF os[order_id].side = "SELL" THEN os
       ELSE [os EXCEPT ![order_id].filled_quantity = new_filled,
                       ![order_id].status =
                           IF new_filled >= os[order_id].quantity THEN "FILLED"
                           ELSE IF new_filled > 0 THEN "PARTIAL"
                           ELSE @]

(* an update_filled that reports FILLED on the first fill                  *)
UpdateFilledEarly(os, order_id, fill_quantity) ==
    LET new_filled == os[order_id].filled_quantity + fill_quantity
    IN [os EXCEPT ![order_id].filled_quantity = new_filled,
                  ![order_id].status = IF new_filled > 0 THEN "FILLED" ELSE @]

UpdateFilled(os, order_id, fill_quantity) ==
    LET new_filled == os[order_id].filled_quantity + fill_quantity
    IN [os EXCEPT ![order_id].filled_quantity = new_filled,
                  ![order_id].status =
                      IF new_filled >= os[order_id].quantity THEN "FILLED"
                      ELSE IF new_filled > 0 THEN "PARTIAL"
                      ELSE @]

(* variant of queue_trade_event_without_commit that adds the row twice     *)
QueueTradeEventTwice(ob, trade_data, book_state) ==
    LET row == [event_type |-> "TRADE",
                trade |-> [price_in_cents |-> trade_data.price_in_cents,
                           quantity |-> trade_data.quantity],
                book |-> book_state, published |-> FALSE]
    IN  Append(Append(ob, row), row)

(* OutboxRepository.queue_trade_event_without_commit                       *)
QueueTradeEvent(ob, trade_data, book_state) ==
    Append(ob, [event_type |-> "TRADE",
                trade |-> [price_in_cents |-> trade_data.price_in_cents,
                           quantity |-> trade_data.quantity],
                book |-> book_state, published |-> FALSE])

(* TradeRepository.record_trade_without_commit                             *)
RecordTrade(ts, trade_data) ==
    Append(ts, [trade_id |-> Len(ts) + 1,
                buy_order_id |-> trade_data.buy_order_id,
                sell_order_id |-> trade_data.sell_order_id,
                price_in_cents |-> trade_data.price_in_cents,
                quantity |-> trade_data.quantity,
                buyer_id |-> trade_data.buyer_id,
                seller_id |-> trade_data.seller_id,
                taker_order_id |-> trade_data.taker_order_id,
                maker_order_id |-> trade_data.maker_order_id])

(* a trade loop outside a transaction: when a repository call raises, the  *)
(* trade row and the ledger entries written before it stay                 *)
SettleTradeNoRollback(db, trade_data, book_state) ==
    LET ts == RecordTrade(db.trades, trade_data)
        trade == ts[Len(ts)]
        led == PostTradeEntries(db.ledger, trade)
        ps1 == UpdateForBuy(db.positions, trade_data.buyer_id,
                            trade_data.quantity, trade_data.price_in_cents)
        sell_raises == SellRaises(ps1, trade_data.seller_id, trade_data.quantity)
        ps2 == UpdateForSell(ps1, trade_data.seller_id, trade_data.quantity)
        os1 == UpdateFilled(db.orders, trade_data.buy_order_id, trade_data.quantity)
        os2 == UpdateFilled(os1, trade_data.sell_order_id, trade_data.quantity)
    IN IF sell_raises
       THEN [db EXCEPT !.trades = ts, !.ledger = led, !.positions = ps1]
       ELSE [orders |-> os2, positions |-> ps2, trades |-> ts, ledger |-> led,
             outbox |-> QueueTradeEvent(db.outbox, trade_data, book_state),
             last_price |-> trade_data.price_in_cents, failed |-> FALSE]

(* one pass of the loop "for trade_data in trades" of _process_new_order;  *)
(* a raise leaves the copy as it was before the trade, with failed set     *)
SettleTrade(db, trade_data, book_state) ==
    LET ts == RecordTrade(db.trades, trade_data)
        trade == ts[Len(ts)]
        led == PostTradeEntries(db.ledger, trade)
        ps1 == UpdateForBuy(db.positions, trade_data.buyer_id,
                            trade_data.quantity, trade_data.price_in_cents)
        sell_raises == SellRaises(ps1, trade_data.seller_id, trade_data.quantity)
        ps2 == UpdateForSell(ps1, trade_data.seller_id, trade_data.quantity)
        buy_raises == FilledRaises(db.orders, trade_data.buy_order_id,
                                   trade_data.quantity)
        os1 == UpdateFilled(db.orders, trade_data.buy_order_id, trade_data.quantity)
        sell_fill_raises == FilledRaises(os1, trade_data.sell_order_id,
                                         trade_data.quantity)
        os2 == UpdateFilled(os1, trade_data.sell_order_id, trade_data.quantity)
    IN IF sell_raises \/ buy_raises \/ sell_fill_raises
       THEN [db EXCEPT !.failed = TRUE]
       ELSE [orders |-> os2, positions |-> ps2, trades |-> ts, ledger |-> led,
             outbox |-> QueueTradeEvent(db.outbox, trade_data, book_state),
             last_price |-> trade_data.price_in_cents, failed |-> FALSE]

RECURSIVE SettleTrades(_, _, _)
SettleTrades(db, trs, book_state) ==
    IF trs = <<>> \/ db.failed THEN db
    ELSE Only({ SettleTrades(db1, Tail(trs), book_state) :
                  db1 \in {SettleTrade(db, Head(trs), book_state)} })

(* ------------------------------ trading service ----------------------- *)
(* _validate_buy_order: the conditions under which it does not raise       *)
ValidateBuyOrder(led, trader_id, quantity, order_type, limit_price) ==
    /\ ~(order_type = "LIMIT" /\ limit_price = None)
    /\ trader_id \in Traders
    /\ order_type = "LIMIT" =>
          ~(GetCashBalance(led, trader_id) < quantity * limit_price)

(* _validate_sell_order: the conditions under which it does not raise      *)
ValidateSellOrder(ps, trader_id, quantity) ==
    ~(~ps[trader_id].exists \/ ps[trader_id].quantity < quantity)

(* OrderRepository.create_order_without_commit with get_next_sequence      *)
NewOrderRow(order_id, sequence, trader_id, side, order_type, quantity, limit_price) ==
    [order_id |-> order_id, trader_id |-> trader_id, side |-> side,
     order_type |-> order_type, quantity |-> quantity, limit_price |-> limit_price,
     filled_quantity |-> 0, status |-> "PENDING", cancel_reason |-> "NONE",
     sequence |-> sequence]

NewOrderMessage(order_id) ==
    [message_type |-> "NEW_ORDER", order_id |-> order_id, cancel_reason |-> "NONE"]

CancelOrderMessage(order_id, cancel_reason) ==
    [message_type |-> "CANCEL_ORDER", order_id |-> order_id,
     cancel_reason |-> cancel_reason]

(* ------------------------------ initial state ------------------------- *)
(* The exchange after seed_treasury and OrderRouter.initialize: trader "A" *)
(* was created with InitCash (create_trader); the treasury "B" holds       *)
(* InitShares issued by ensure_treasury_shares and has one ask of the      *)
(* ensure_sell_order ladder, above par, which rebuild_book_from_db has     *)
(* loaded into the book                                                    *)
InitPositions ==
    [t \in Traders |->
        IF t = "B" THEN [exists |-> TRUE, quantity |-> InitShares, avg_cost |-> 0]
        ELSE [exists |-> FALSE, quantity |-> 0, avg_cost |-> 0]]

InitLedger ==
    Append(InitializeTraderCash(<<>>, "A", InitCash),
           [trade_id |-> None, trader_id |-> "B", account |-> "SHARES",
            debit |-> InitShares, credit |-> 0])

(* OrderRepository.get_next_sequence: the upsert inserts last_sequence 1   *)
(* when the symbol has no counter row (None) and adds one to it otherwise  *)
GetNextSequence(ls) == IF ls = None THEN 1 ELSE ls + 1

InitOrders ==
    << NewOrderRow(1, GetNextSequence(None), "B", "SELL", "LIMIT", InitShares,
                   MaxPrice) >>

Init ==
    /\ orders = InitOrders
    /\ last_sequence = GetNextSequence(None)
    /\ trades = <<>>
    /\ ledger = InitLedger
    /\ positions = InitPositions
    /\ outbox = <<>>
    /\ bids = EmptySide
    /\ asks = AddOrderToBook(EmptySide, InitOrders[1])
    /\ last_price_in_cents = None
    /\ order_queue = <<>>
    /\ inflight = {}
    /\ cancels_sent = 0
    /\ claimed = [w \in Workers |-> <<>>]
    /\ cursor = [w \in Workers |-> 0]
    /\ channel = <<>>
    /\ faults = 0
    /\ tx = [t \in Traders |-> NoTx]
    /\ expired = {}
    /\ restarts = 0
    /\ starting = FALSE
    /\ seeds = 0
    /\ suspended = <<>>
    /\ other = [orders |-> <<>>, last_sequence |-> None, bids |-> EmptySide,
                asks |-> EmptySide, last_price_in_cents |-> None,
                order_queue |-> <<>>]

(* ------------------------------ actions ------------------------------- *)
(* place_buy_order / place_sell_order up to the commit of the order row in *)
(* _submit_order; a validation error changes nothing                       *)
InsertOrder(trader_id, side, order_type, quantity, limit_price) ==
    /\ IF side = "BUY"
       THEN ValidateBuyOrder(ledger, trader_id, quantity, order_type, limit_price)
       ELSE ValidateSellOrder(positions, trader_id, quantity)
    /\ last_sequence' = GetNextSequence(last_sequence)
    /\ orders' = Append(orders,
                        NewOrderRow(Len(orders) + 1,
                                    GetNextSequence(last_sequence), trader_id,
                                    side, order_type, quantity, limit_price))
    /\ UNCHANGED <<trades, ledger, positions, outbox, bookVars, cancels_sent,
                   sideVars>>

(* place_buy_order / place_sell_order run to the end without another task  *)
(* in between: the order row is committed and its NewOrder message queued  *)
PlaceOrder(trader_id, side, order_type, quantity, limit_price) ==
    /\ InsertOrder(trader_id, side, order_type, quantity, limit_price)
    /\ order_queue' = Append(order_queue, NewOrderMessage(Len(orders) + 1))
    /\ UNCHANGED inflight

(* the same call suspended after session.commit() of _submit_order, before *)
(* order_router.submit_order                                               *)
SubmitInsert(trader_id, side, order_type, quantity, limit_price) ==
    /\ InsertOrder(trader_id, side, order_type, quantity, limit_price)
    /\ inflight' = inflight \cup {Len(orders) + 1}
    /\ UNCHANGED order_queue

(* the tail of _submit_order: order_router.submit_order ->                 *)
(* SymbolOrderProcessor.submit_order                                       *)
SubmitEnqueue(order_id) ==
    /\ order_id \in inflight
    /\ inflight' = inflight \ {order_id}
    /\ order_queue' = Append(order_queue, NewOrderMessage(order_id))
    /\ UNCHANGED <<dbVars, bookVars, cancels_sent, sideVars>>

(* trading.cancel_order, the case that returns True                        *)
CancelRequest(trader_id, order_id) ==
    /\ order_id \in 1..Len(orders)
    /\ order_id \notin inflight
    /\ orders[order_id].trader_id = trader_id
    /\ orders[order_id].status \in LiveStatuses
    /\ order_queue' = Append(order_queue, CancelOrderMessage(order_id, "USER"))
    /\ cancels_sent' = cancels_sent + 1
    /\ UNCHANGED <<dbVars, bookVars, inflight, sideVars>>

(* OrderExpirationService._check_and_expire_orders for one order whose     *)
(* expires_at has passed (get_expired_orders selects live orders only)     *)
ExpireOrder(order_id) ==
    /\ order_id \in 1..Len(orders)
    /\ orders[order_id].status \in LiveStatuses
    /\ order_queue' = Append(order_queue, CancelOrderMessage(order_id, "EXPIRED"))
    /\ cancels_sent' = cancels_sent + 1
    /\ UNCHANGED <<dbVars, bookVars, inflight, sideVars>>

(* _process_new_order for one order, up to the commit: the order is read,  *)
(* match_order consumes the opposite side of the book in memory (bids,     *)
(* asks after matching), _match_ioc_order writes EXPIRED / IOC_UNFILLED on *)
(* the order object, and the trade loop settles every trade on the         *)
(* transaction's copy of the tables (db) until a repository call raises    *)
NewOrderOutcomeOn(order_id, b, a) ==
    LET order == orders[order_id]
        Outcome(m) ==
            LET bids1 == IF order.side = "BUY" THEN b ELSE m.book
                asks1 == IF order.side = "BUY" THEN m.book ELSE a
                os0 == IF m.ioc_unfilled
                       THEN [orders EXCEPT ![order_id].status = "EXPIRED",
                                           ![order_id].cancel_reason = "IOC_UNFILLED"]
                       ELSE orders
            IN Only({ [db |-> db, bids |-> bids1, asks |-> asks1,
                       remaining |-> m.remaining, matched |-> m.trades] :
                        db \in {SettleTrades(TxDb(os0, positions, trades, ledger,
                                                  outbox, last_price_in_cents),
                                             m.trades, book_state) :
                                   book_state \in {BookState(bids1, asks1)}} })
    IN Only({ Outcome(m) :
                m \in {MatchOrder(order, IF order.side = "BUY" THEN a ELSE b)} })

NewOrderOutcome(order_id) == NewOrderOutcomeOn(order_id, bids, asks)

(* _process_new_order, the whole handler.  When nothing raises, every      *)
(* trade is settled, the LIMIT remainder is added to the book and the      *)
(* transaction commits.  When a repository call raises inside the trade    *)
(* loop the session rolls back and start() logs the error and goes on: the *)
(* tables are unchanged, the book keeps what match_order did to it and     *)
(* last_price_in_cents the price of the last trade settled before the raise *)
FinishNewOrder(out) ==
    /\ LET order == out.db.orders[Head(order_queue).order_id]
           rests == out.remaining > 0 /\ order.order_type = "LIMIT"
       IN IF out.db.failed
          THEN /\ bids' = out.bids
               /\ asks' = out.asks
               /\ last_price_in_cents' = out.db.last_price
               /\ UNCHANGED <<orders, positions, trades, ledger, outbox>>
          ELSE /\ orders' = out.db.orders
               /\ positions' = out.db.positions
               /\ trades' = out.db.trades
               /\ ledger' = out.db.ledger
               /\ outbox' = out.db.outbox
               /\ last_price_in_cents' = out.db.last_price
               /\ bids' = IF rests /\ order.side = "BUY"
                          THEN AddOrderToBook(out.bids, order) ELSE out.bids
               /\ asks' = IF rests /\ order.side = "SELL"
                          THEN AddOrderToBook(out.asks, order) ELSE out.asks
    /\ order_queue' = Tail(order_queue)
    /\ UNCHANGED <<last_sequence, inflight, cancels_sent>>

ProcessNewOrder ==
    /\ order_queue # <<>>
    /\ Head(order_queue).message_type = "NEW_ORDER"
    /\ \E out \in {NewOrderOutcome(Head(order_queue).order_id)} :
           FinishNewOrder(out)
    /\ UNCHANGED sideVars

(* _process_new_order up to its first await after match_order: the trade   *)
(* loop awaits the repositories, and while it is suspended there the book  *)
(* in memory is as match_order left it and the transaction is open         *)
MatchInMemory ==
    /\ suspended = <<>>
    /\ order_queue # <<>>
    /\ Head(order_queue).message_type = "NEW_ORDER"
    /\ \E out \in {NewOrderOutcome(Head(order_queue).order_id)} :
           /\ out.matched # <<>>
           /\ bids' = out.bids
           /\ asks' = out.asks
           /\ suspended' = <<[bids |-> bids, asks |-> asks]>>
    /\ UNCHANGED <<dbVars, last_price_in_cents, order_queue, inflight,
                   cancels_sent, pubVars, faults, tx, expired, restarts, other,
                   starting, seeds>>

(* the rest of _process_new_order once the awaited calls return: the trade *)
(* loop ends, the remainder rests and the transaction commits, or a call   *)
(* raises and the transaction rolls back                                   *)
ResumeNewOrder ==
    /\ suspended # <<>>
    /\ \E out \in {NewOrderOutcomeOn(Head(order_queue).order_id,
                                      suspended[1].bids, suspended[1].asks)} :
           FinishNewOrder(out)
    /\ suspended' = <<>>
    /\ UNCHANGED <<pubVars, faults, tx, expired, restarts, other,
                   starting, seeds>>

(* _process_new_order of an order that matches nothing                     *)
ProcessUnmatched ==
    /\ suspended = <<>>
    /\ order_queue # <<>>
    /\ Head(order_queue).message_type = "NEW_ORDER"
    /\ NewOrderOutcome(Head(order_queue).order_id).matched = <<>>
    /\ ProcessNewOrder

(* start() when storage fails under a message: get_db_transaction or the *)
(* first read raises before the book is touched, start() prints the error  *)
(* and takes the next message                                              *)
StorageFails ==
    /\ faults < MaxFaults
    /\ order_queue # <<>>
    /\ order_queue' = Tail(order_queue)
    /\ faults' = faults + 1
    /\ UNCHANGED <<dbVars, bookVars, inflight, cancels_sent, pubVars, tx,
                   expired, restarts, suspended, other,
                   starting, seeds>>

(* ---------------------------- a second symbol -------------------------- *)
(* place_buy_order of a LIMIT order for the second symbol: the row gets    *)
(* the next sequence number of that symbol's counter and                   *)
(* OrderRouter.submit_order puts the message on processors[ticker]'s queue *)
PlaceOrderOther(trader_id, quantity, limit_price) ==
    /\ ValidateBuyOrder(ledger, trader_id, quantity, "LIMIT", limit_price)
    /\ other' = [other EXCEPT
                    !.last_sequence = GetNextSequence(other.last_sequence),
                    !.orders = Append(other.orders,
                                      NewOrderRow(Len(other.orders) + 1,
                                                  GetNextSequence(other.last_sequence),
                                                  trader_id, "BUY", "LIMIT",
                                                  quantity, limit_price)),
                    !.order_queue = Append(other.order_queue,
                                           NewOrderMessage(Len(other.orders) + 1))]
    /\ UNCHANGED <<dbVars, bookVars, order_queue, inflight, cancels_sent,
                   pubVars, faults, tx, expired, restarts, suspended,
                   starting, seeds>>

(* the second symbol's processor in a build whose processors share the     *)
(* first symbol's book                                                     *)
ProcessOtherSharedBook ==
    /\ other.order_queue # <<>>
    /\ LET order == other.orders[Head(other.order_queue).order_id]
       IN bids' = AddOrderToBook(bids, order)
    /\ other' = [other EXCEPT !.order_queue = Tail(other.order_queue)]
    /\ UNCHANGED <<dbVars, asks, last_price_in_cents, order_queue, inflight,
                   cancels_sent, pubVars, faults, tx, expired, restarts,
                   suspended,
                   starting, seeds>>

(* _process_new_order of the second symbol's processor for an order that   *)
(* matches nothing: the order rests in that processor's own book           *)
ProcessOther ==
    /\ other.order_queue # <<>>
    /\ LET order == other.orders[Head(other.order_queue).order_id]
           m == MatchOrder(order, other.asks)
       IN /\ m.trades = <<>>
          /\ other' = [other EXCEPT
                          !.bids = AddOrderToBook(other.bids, order),
                          !.order_queue = Tail(other.order_queue)]
    /\ UNCHANGED <<dbVars, bookVars, order_queue, inflight, cancels_sent,
                   pubVars, faults, tx, expired, restarts, suspended,
                   starting, seeds>>

(* OrderBook.to_snapshot: the total remaining quantity of each level and   *)
(* the last price                                                          *)
ToSnapshot(b, a, lp) ==
    [bids |-> [p \in DOMAIN b |-> SumRemaining(b[p])],
     asks |-> [p \in DOMAIN a |-> SumRemaining(a[p])],
     last_price_in_cents |-> lp]

(* SymbolOrderProcessor.get_order_book_snapshot                            *)
GetOrderBookSnapshot == ToSnapshot(bids, asks, last_price_in_cents)

(* a _process_cancellation that writes CANCELLED whatever the reason      *)
ProcessCancellationAsUser ==
    /\ order_queue # <<>>
    /\ Head(order_queue).message_type = "CANCEL_ORDER"
    /\ LET msg == Head(order_queue)
           order == orders[msg.order_id]
       IN /\ order.status \in LiveStatuses
          /\ orders' = [orders EXCEPT
                          ![msg.order_id].status = "CANCELLED",
                          ![msg.order_id].cancel_reason = msg.cancel_reason]
          /\ bids' = IF order.side = "BUY" THEN RemoveOrder(bids, order) ELSE bids
          /\ asks' = IF order.side = "SELL" THEN RemoveOrder(asks, order) ELSE asks
    /\ order_queue' = Tail(order_queue)
    /\ UNCHANGED <<last_sequence, trades, ledger, positions, outbox,
                   last_price_in_cents, inflight, cancels_sent, sideVars>>

(* _process_cancellation of an order that is PENDING or PARTIAL            *)
ProcessCancellation ==
    /\ order_queue # <<>>
    /\ Head(order_queue).message_type = "CANCEL_ORDER"
    /\ LET msg == Head(order_queue)
           order == orders[msg.order_id]
       IN /\ order.status \in LiveStatuses
          /\ orders' = [orders EXCEPT
                          ![msg.order_id].status =
                              IF msg.cancel_reason = "USER" THEN "CANCELLED"
                              ELSE "EXPIRED",
                          ![msg.order_id].cancel_reason = msg.cancel_reason]
          /\ bids' = IF order.side = "BUY" THEN RemoveOrder(bids, order) ELSE bids
          /\ asks' = IF order.side = "SELL" THEN RemoveOrder(asks, order) ELSE asks
    /\ order_queue' = Tail(order_queue)
    /\ UNCHANGED <<last_sequence, trades, ledger, positions, outbox,
                   last_price_in_cents, inflight, cancels_sent, sideVars>>

(* _process_cancellation of an order that is no longer live:               *)
(* cancel_order_without_commit raises, the handler logs and goes on        *)
RejectCancellation ==
    /\ order_queue # <<>>
    /\ Head(order_queue).message_type = "CANCEL_ORDER"
    /\ orders[Head(order_queue).order_id].status \notin LiveStatuses
    /\ order_queue' = Tail(order_queue)
    /\ UNCHANGED <<dbVars, bookVars, inflight, cancels_sent, sideVars>>

(* ------------------------- outbox publisher --------------------------- *)
(* limit of publish_batch_with_commit as _run_publisher_loop calls it      *)
BatchLimit == 100

Range(seq) == { seq[i] : i \in 1..Len(seq) }

(* rows another worker's open transaction holds FOR UPDATE                 *)
LockedByOthers(cl, w) == UNION { Range(cl[v]) : v \in Workers \ {w} }

(* a SELECT ... FOR UPDATE that takes rows whatever locks they carry       *)
SelectIgnoringLocks(ob, cl, w) ==
    LET Wanted(k) == ~ob[k].published
        rows == SelectSeq([k \in 1..Len(ob) |-> k], Wanted)
    IN  SubSeq(rows, 1, Min(Len(rows), BatchLimit))

(* the SELECT of publish_batch_with_commit: unpublished rows in creation   *)
(* order, rows locked by other workers skipped, at most BatchLimit rows    *)
SelectForUpdateSkipLocked(ob, cl, w) ==
    LET Wanted(k) == ~ob[k].published /\ k \notin LockedByOthers(cl, w)
        rows == SelectSeq([k \in 1..Len(ob) |-> k], Wanted)
    IN  SubSeq(rows, 1, Min(Len(rows), BatchLimit))

(* how often event k went out on its channel                               *)
Sent(ch, k) == Cardinality({ j \in 1..Len(ch) : ch[j] = k })

(* redis_client.publish(channel, event.payload) for event k                *)
Publish(ch, k) == Append(ch, k)

(* a worker that flips the flags before the loop over the events is done   *)
BatchSentAlways(w) == TRUE

(* the for loop over the events of the batch has run to its end            *)
BatchSent(w) == cursor[w] = Len(claimed[w])

(* UPDATE market_data_outbox SET published = true WHERE event_id IN ids    *)
MarkPublished(ob, ids) ==
    [k \in 1..Len(ob) |->
        IF k \in Range(ids) THEN [ob[k] EXCEPT !.published = TRUE] ELSE ob[k]]

(* publish_batch_with_commit, the SELECT: the worker's transaction locks   *)
(* its batch (an empty batch publishes nothing and commits nothing)        *)
ClaimBatch(w) ==
    /\ claimed[w] = <<>>
    /\ SelectForUpdateSkipLocked(outbox, claimed, w) # <<>>
    /\ claimed' = [claimed EXCEPT
                     ![w] = SelectForUpdateSkipLocked(outbox, claimed, w)]
    /\ cursor' = [cursor EXCEPT ![w] = 0]
    /\ UNCHANGED <<dbVars, bookVars, order_queue, inflight, cancels_sent,
                   channel, faults, tx, expired,
                   restarts, suspended, other,
                   starting, seeds>>

(* one turn of the for loop: the next event of the batch is published      *)
PublishEvent(w) ==
    /\ claimed[w] # <<>>
    /\ cursor[w] < Len(claimed[w])
    /\ channel' = Publish(channel, claimed[w][cursor[w] + 1])
    /\ cursor' = [cursor EXCEPT ![w] = cursor[w] + 1]
    /\ UNCHANGED <<dbVars, bookVars, order_queue, inflight, cancels_sent,
                   claimed, faults, tx, expired,
                   restarts, suspended, other,
                   starting, seeds>>

(* the UPDATE of the published flags and session.commit(): the locks go    *)
CommitBatch(w) ==
    /\ claimed[w] # <<>>
    /\ BatchSent(w)
    /\ outbox' = MarkPublished(outbox, claimed[w])
    /\ claimed' = [claimed EXCEPT ![w] = <<>>]
    /\ cursor' = [cursor EXCEPT ![w] = 0]
    /\ UNCHANGED <<orders, last_sequence, trades, ledger, positions, bookVars,
                   order_queue, inflight, cancels_sent, channel, faults, tx,
                   expired,
                   restarts, suspended, other,
                   starting, seeds>>

(* publish or commit raises, or the worker dies: the session closes        *)
(* without a commit, the flags stay false and the locks go; the loop of    *)
(* _run_publisher_loop (or a restarted worker) starts the next batch       *)
FailBatch(w) ==
    /\ claimed[w] # <<>>
    /\ faults < MaxFaults
    /\ faults' = faults + 1
    /\ claimed' = [claimed EXCEPT ![w] = <<>>]
    /\ cursor' = [cursor EXCEPT ![w] = 0]
    /\ UNCHANGED <<dbVars, bookVars, order_queue, inflight, cancels_sent,
                   channel, tx, expired,
                   restarts, suspended, other,
                   starting, seeds>>

(* --------------------- concurrent order inserts ----------------------- *)
(* an upsert that does not wait for the counter row                        *)
CounterRowFreeAlways(t) == TRUE

(* the counter row of the symbol is not locked by another transaction: an  *)
(* upsert that has updated the row holds it until its transaction ends     *)
CounterRowFree(t) == \A u \in Traders \ {t} : tx[u] = NoTx

(* _submit_order up to create_order_without_commit: the validation has     *)
(* passed, the transaction has taken its sequence and flushed the order    *)
BeginInsert(t, side, order_type, quantity, limit_price) ==
    /\ tx[t] = NoTx
    /\ IF side = "BUY"
       THEN ValidateBuyOrder(ledger, t, quantity, order_type, limit_price)
       ELSE ValidateSellOrder(positions, t, quantity)
    /\ CounterRowFree(t)
    /\ tx' = [tx EXCEPT ![t] = NewOrderRow(None, GetNextSequence(last_sequence),
                                           t, side, order_type, quantity,
                                           limit_price)]
    /\ UNCHANGED <<dbVars, bookVars, order_queue, inflight, cancels_sent,
                   pubVars, faults, expired,
                   restarts, suspended, other,
                   starting, seeds>>

(* session.commit() of _submit_order: the order row and the counter are    *)
(* committed; the call goes on to order_router.submit_order                *)
CommitInsert(t) ==
    /\ tx[t] # NoTx
    /\ orders' = Append(orders, [tx[t] EXCEPT !.order_id = Len(orders) + 1])
    /\ last_sequence' = tx[t].sequence
    /\ inflight' = inflight \cup {Len(orders) + 1}
    /\ tx' = [tx EXCEPT ![t] = NoTx]
    /\ UNCHANGED <<trades, ledger, positions, outbox, bookVars, order_queue,
                   cancels_sent, pubVars, faults, expired,
                   restarts, suspended, other,
                   starting, seeds>>

(* the transaction of _submit_order fails before its commit: the order and *)
(* the counter update are rolled back                                      *)
AbortInsert(t) ==
    /\ tx[t] # NoTx
    /\ faults < MaxFaults
    /\ faults' = faults + 1
    /\ tx' = [tx EXCEPT ![t] = NoTx]
    /\ UNCHANGED <<dbVars, bookVars, order_queue, inflight, cancels_sent,
                   pubVars, expired,
                   restarts, suspended, other,
                   starting, seeds>>

(* ------------------------- expiration daemon -------------------------- *)
(* the clock passes expires_at of an order                                 *)
PassExpiry(order_id) ==
    /\ order_id \in 1..Len(orders)
    /\ order_id \notin expired
    /\ expired' = expired \cup {order_id}
    /\ UNCHANGED <<dbVars, bookVars, order_queue, inflight, cancels_sent,
                   pubVars, faults, tx,
                   restarts, suspended, other,
                   starting, seeds>>

(* no Cancel(EXPIRED) message for the order waits in the queue             *)
NoExpiryQueued(order_id) ==
    \A i \in 1..Len(order_queue) :
        order_queue[i] # CancelOrderMessage(order_id, "EXPIRED")

(* order_router.cancel_order raises for one order of the batch: the daemon *)
(* logs it and goes on with the next order and the next round              *)
ExpireOrderFails(order_id) ==
    /\ order_id \in expired
    /\ orders[order_id].status \in LiveStatuses
    /\ faults < MaxFaults
    /\ faults' = faults + 1
    /\ UNCHANGED <<dbVars, bookVars, order_queue, inflight, cancels_sent,
                   pubVars, tx, expired,
                   restarts, suspended, other,
                   starting, seeds>>

(* ------------------------------ restart ------------------------------- *)
(* OrderRepository.get_unfilled_orders: the PENDING and PARTIAL orders     *)
UnfilledOrders(os) == { i \in 1..Len(os) : os[i].status \in LiveStatuses }

(* rebuild_book_from_db for one side: the unfilled orders are added to an  *)
(* empty book in ascending sequence order                                  *)
RECURSIVE RebuildLoop(_, _, _, _)
RebuildLoop(os, ids, side, book_side) ==
    IF ids = {} THEN book_side
    ELSE LET i == CHOOSE i \in ids : \A j \in ids : os[i].sequence <= os[j].sequence
         IN  RebuildLoop(os, ids \ {i}, side,
                         IF os[i].side = side
                         THEN AddOrderToBook(book_side, os[i]) ELSE book_side)

RebuildBook(os, side) == RebuildLoop(os, UnfilledOrders(os), side, EmptySide)

(* OrderRouter.shutdown followed by OrderRouter.initialize: a new          *)
(* processor with a new queue and a new OrderBook, rebuilt from the orders *)
(* table                                                                   *)
RestartRouter ==
    /\ restarts < MaxRestarts
    /\ restarts' = restarts + 1
    /\ bids' = RebuildBook(orders, "BUY")
    /\ asks' = RebuildBook(orders, "SELL")
    /\ last_price_in_cents' = None
    /\ order_queue' = <<>>
    /\ other' = [other EXCEPT
                    !.bids = RebuildBook(other.orders, "BUY"),
                    !.asks = RebuildBook(other.orders, "SELL"),
                    !.last_price_in_cents = None,
                    !.order_queue = <<>>]
    /\ UNCHANGED <<dbVars, inflight, cancels_sent, pubVars, faults, tx, expired,
                   suspended,
                   starting, seeds>>

(* --------------------------- treasury seeding -------------------------- *)
Treasury == "B"

(* has_circulating_shares: an account other than the treasury holds shares *)
HasCirculatingShares(ps) ==
    \E t \in Traders \ {Treasury} : ps[t].exists /\ ps[t].quantity > 0

(* a seeding that mints the whole issue whatever the treasury holds        *)
EnsureTreasurySharesMintsAll(ps, led) ==
    [positions |-> [ps EXCEPT ![Treasury].exists = TRUE,
                              ![Treasury].quantity = InitShares],
     ledger |-> Append(led, [trade_id |-> None, trader_id |-> Treasury,
                             account |-> "SHARES", debit |-> InitShares,
                             credit |-> 0])]

(* ensure_treasury_shares: the position is set to the issue (created with  *)
(* avg_cost 0 when missing) and the difference to what the position held   *)
(* is posted to the treasury's share account                               *)
EnsureTreasuryShares(ps, led) ==
    LET current_qty == IF ps[Treasury].exists THEN ps[Treasury].quantity ELSE 0
        delta == InitShares - current_qty
    IN [positions |->
            IF ps[Treasury].exists
            THEN [ps EXCEPT ![Treasury].quantity = InitShares]
            ELSE [ps EXCEPT ![Treasury] =
                     [exists |-> TRUE, quantity |-> InitShares, avg_cost |-> 0]],
        ledger |->
            IF delta = 0 THEN led
            ELSE Append(led, [trade_id |-> None, trader_id |-> Treasury,
                              account |-> "SHARES",
                              debit |-> IF delta > 0 THEN delta ELSE 0,
                              credit |-> IF delta > 0 THEN 0 ELSE 0 - delta])]

(* get_trader_unfilled_orders of the treasury, LIMIT orders only           *)
TreasuryOpenOrders(os) ==
    { i \in 1..Len(os) : /\ os[i].trader_id = Treasury
                         /\ os[i].status \in LiveStatuses
                         /\ os[i].order_type = "LIMIT" }

(* the ids of a set of orders, newest first (order_by desc(created_at))    *)
RECURSIVE NewestFirst(_)
NewestFirst(ids) ==
    IF ids = {} THEN <<>>
    ELSE LET i == CHOOSE i \in ids : \A j \in ids : i >= j
         IN << NewOrderMessage(i) >> \o NewestFirst(ids \ {i})

(* ensure_sell_order, the rows: the ask of the ladder is created unless    *)
(* the treasury has an unfilled SELL LIMIT at that price                   *)
EnsureSellOrder(os, ls) ==
    IF \E i \in TreasuryOpenOrders(os) :
           os[i].side = "SELL" /\ os[i].limit_price = MaxPrice
    THEN [orders |-> os, last_sequence |-> ls]
    ELSE [orders |-> Append(os, NewOrderRow(Len(os) + 1, GetNextSequence(ls),
                                            Treasury, "SELL", "LIMIT",
                                            InitShares, MaxPrice)),
          last_sequence |-> GetNextSequence(ls)]

(* POST /seed/treasury on the running exchange, for the symbol: main()     *)
(* skips a symbol whose shares circulate; otherwise ensure_treasury_shares *)
(* commits, ensure_sell_order commits its rows and then submits every      *)
(* unfilled LIMIT order of the treasury to the router, also those already  *)
(* resting in the book; ensure_bid_ladder then raises on its import of     *)
(* place_admin_order, which services.trading does not define, and posts    *)
(* nothing                                                                 *)
SeedTreasury ==
    /\ seeds < MaxSeeds
    /\ seeds' = seeds + 1
    /\ IF HasCirculatingShares(positions)
       THEN UNCHANGED <<orders, last_sequence, ledger, positions, order_queue>>
       ELSE LET ts == EnsureTreasuryShares(positions, ledger)
                so == EnsureSellOrder(orders, last_sequence)
            IN /\ positions' = ts.positions
               /\ ledger' = ts.ledger
               /\ orders' = so.orders
               /\ last_sequence' = so.last_sequence
               /\ order_queue' = order_queue
                                   \o NewestFirst(TreasuryOpenOrders(so.orders))
    /\ UNCHANGED <<trades, outbox, bookVars, inflight, cancels_sent, pubVars,
                   faults, tx, expired, restarts, suspended, other, starting>>

(* ------------------------------- startup ------------------------------- *)
(* a lifespan that serves requests while the router initializes            *)
ServingAlways == TRUE

(* lifespan: requests, the expiration service and the agents run only once *)
(* 'await order_router.initialize(TICKERS)' has returned                   *)
Serving == ~starting

(* the process starts again and OrderRouter.initialize reaches the await   *)
(* of rebuild_book_from_db: a new processor with an empty book and an      *)
(* empty queue is in self.processors, its task is not yet created          *)
BeginInitialize ==
    /\ restarts < MaxRestarts
    /\ ~starting
    /\ restarts' = restarts + 1
    /\ starting' = TRUE
    /\ bids' = EmptySide
    /\ asks' = EmptySide
    /\ last_price_in_cents' = None
    /\ order_queue' = <<>>
    /\ UNCHANGED <<dbVars, inflight, cancels_sent, pubVars, faults, tx, expired,
                   suspended, other, seeds>>

(* rebuild_book_from_db returns and initialize creates the processor task  *)
CompleteRebuild ==
    /\ starting
    /\ starting' = FALSE
    /\ bids' = RebuildBook(orders, "BUY")
    /\ asks' = RebuildBook(orders, "SELL")
    /\ UNCHANGED <<dbVars, last_price_in_cents, order_queue, inflight,
                   cancels_sent, pubVars, faults, tx, expired, restarts,
                   suspended, other, seeds>>

(* get_current_price: the last price of the book snapshot                 *)
GetCurrentPrice == last_price_in_cents

(* ----------------------- orders without a price ----------------------- *)
(* a LIMIT order whose limit_price is None                                 *)
Unpriced(order) == order.order_type = "LIMIT" /\ order.limit_price = None

(* the message at the head of the queue meets a None where the matcher     *)
(* compares or sorts prices: the order has no price, or the asks hold a    *)
(* level whose key is None                                                 *)
MeetsNone ==
    /\ order_queue # <<>>
    /\ Head(order_queue).message_type = "NEW_ORDER"
    /\ \/ Unpriced(orders[Head(order_queue).order_id])
       \/ None \in DOMAIN asks

(* _process_new_order when a price is None.  An unpriced order is a SELL   *)
(* (_validate_buy_order rejects the BUY).  _match_limit_order raises       *)
(* TypeError on best_price < None when there are bids; with no bids        *)
(* add_order raises TypeError when the SortedDict has to sort None among   *)
(* int keys, and otherwise the order rests at the level None.  With a      *)
(* level None in the asks there are no bids (every BUY raises: TypeError   *)
(* in the LIMIT comparison, a ValidationError on TradeData's price for     *)
(* MARKET and IOC), a priced SELL LIMIT raises in add_order, a SELL IOC    *)
(* finds no bids and expires, a SELL MARKET does nothing.  Whatever raises *)
(* raises before the book is touched; start() logs it and goes on          *)
ProcessMeetingNone ==
    /\ MeetsNone
    /\ LET order == orders[Head(order_queue).order_id]
       IN  /\ asks' = IF /\ Unpriced(order)
                         /\ bids = EmptySide
                         /\ DOMAIN asks \subseteq {None}
                      THEN AddOrderToBook(asks, order)
                      ELSE asks
           /\ orders' = IF ~Unpriced(order) /\ order.side = "SELL"
                           /\ order.order_type = "IOC"
                        THEN [orders EXCEPT
                                ![order.order_id].status = "EXPIRED",
                                ![order.order_id].cancel_reason = "IOC_UNFILLED"]
                        ELSE orders
    /\ order_queue' = Tail(order_queue)
    /\ UNCHANGED <<last_sequence, trades, ledger, positions, outbox, bids,
                   last_price_in_cents, inflight, cancels_sent, sideVars>>

(* _process_new_order when no price is None                                *)
ProcessPriced == ~MeetsNone /\ ProcessNewOrder

OrderTypes == {"LIMIT", "MARKET", "IOC"}
Sides == {"BUY", "SELL"}

(* the limit prices a submitter sends with each order type: none with      *)
(* MARKET, a price with LIMIT, either with IOC                             *)
LimitPrices(order_type) ==
    IF order_type = "MARKET" THEN {None}
    ELSE IF order_type = "IOC" THEN Prices \cup {None}
    ELSE Prices

Submit ==
    /\ Len(orders) < MaxOrders
    /\ \E trader_id \in Traders, side \in Sides, order_type \in OrderTypes,
          quantity \in Quantities :
           \E limit_price \in LimitPrices(order_type) :
               PlaceOrder(trader_id, side, order_type, quantity, limit_price)

(* the exchange under orders that are neither cancelled nor expire         *)
Next ==
    \/ Submit
    \/ ProcessNewOrder

Spec == Init /\ [][Next]_vars

(* the exchange as lifespan runs it: the router's symbol processor keeps   *)
(* taking messages off its queue; lifespan starts the processors, the      *)
(* expiration service and the agents, and no MarketDataPublisher           *)
SpecLive == Init /\ [][Next]_vars /\ WF_vars(ProcessNewOrder)

Claim == \E w \in Workers : ClaimBatch(w)

PublishOne == \E w \in Workers : PublishEvent(w)

Commit == \E w \in Workers : CommitBatch(w)

Fail == \E w \in Workers : FailBatch(w)

(* the order flow that feeds the outbox: single shares are offered at      *)
(* MaxPrice and bought at the market                                       *)
SubmitFeed ==
    /\ Len(orders) < MaxFeedOrders
    /\ \E trader_id \in Traders :
           \/ PlaceOrder(trader_id, "SELL", "LIMIT", 1, MaxPrice)
           \/ PlaceOrder(trader_id, "BUY", "MARKET", 1, None)

(* the exchange under that order flow with the publisher workers started   *)
NextPublish ==
    \/ SubmitFeed
    \/ ProcessNewOrder
    \/ Claim
    \/ PublishOne
    \/ Commit
    \/ Fail

(* one worker's loop: _run_publisher_loop goes round while it is running   *)
WorkerStep(w) == ClaimBatch(w) \/ PublishEvent(w) \/ CommitBatch(w)

(* every started worker keeps being scheduled by its event loop            *)
SpecPublish ==
    /\ Init
    /\ [][NextPublish]_vars
    /\ \A w \in Workers : WF_vars(WorkerStep(w))

SubmitSuspended ==
    /\ Len(orders) < MaxRaceOrders
    /\ \E trader_id \in Traders, side \in Sides, order_type \in OrderTypes,
          quantity \in Quantities :
           \E limit_price \in LimitPrices(order_type) :
               SubmitInsert(trader_id, side, order_type, quantity, limit_price)

Enqueue == \E order_id \in inflight : SubmitEnqueue(order_id)

Cancel ==
    /\ cancels_sent < MaxCancels
    /\ \E trader_id \in Traders, order_id \in 1..Len(orders) :
           CancelRequest(trader_id, order_id)

Expire ==
    /\ cancels_sent < MaxCancels
    /\ \E order_id \in 1..Len(orders) : ExpireOrder(order_id)

(* cancel requests and expiry checks that come again for the same order    *)
CancelAgain ==
    /\ cancels_sent < MaxRecancels
    /\ \E trader_id \in Traders, order_id \in 1..Len(orders) :
           CancelRequest(trader_id, order_id)

ExpireAgain ==
    /\ cancels_sent < MaxRecancels
    /\ \E order_id \in 1..Len(orders) : ExpireOrder(order_id)

(* the exchange of SpecCancel with more than one cancel per run            *)
NextRecancel ==
    \/ SubmitSuspended
    \/ Enqueue
    \/ CancelAgain
    \/ ExpireAgain
    \/ ProcessNewOrder
    \/ ProcessCancellation
    \/ RejectCancellation

SpecRecancel == Init /\ [][NextRecancel]_vars

(* submitters whose transactions overlap                                   *)
Begin ==
    /\ Len(orders) + Cardinality({ t \in Traders : tx[t] # NoTx }) < MaxFeedOrders
    /\ \E t \in Traders :
           \/ BeginInsert(t, "SELL", "LIMIT", 1, MaxPrice)
           \/ BeginInsert(t, "BUY", "MARKET", 1, None)

CommitOrder == \E t \in Traders : CommitInsert(t)

Abort == \E t \in Traders : AbortInsert(t)

(* the exchange under concurrent calls of place_buy_order / place_sell_order *)
NextSequence ==
    \/ Begin
    \/ CommitOrder
    \/ Abort
    \/ Enqueue
    \/ ProcessNewOrder

SpecSequence == Init /\ [][NextSequence]_vars

(* time passes the expiry of some order                                    *)
Tick == \E order_id \in 1..Len(orders) : PassExpiry(order_id)

(* one round of the daemon for an order that get_expired_orders returns    *)
(* (one message per order at a time in the queue)                          *)
CheckAndExpire ==
    \E order_id \in expired : NoExpiryQueued(order_id) /\ ExpireOrder(order_id)

ExpireFails == \E order_id \in expired : ExpireOrderFails(order_id)

(* the symbol processor's loop                                             *)
ProcessMessage == ProcessNewOrder \/ ProcessCancellation \/ RejectCancellation

(* the exchange of Spec with time and the expiration daemon                *)
NextExpire ==
    \/ Submit
    \/ Tick
    \/ CheckAndExpire
    \/ ExpireFails
    \/ ProcessNewOrder
    \/ ProcessCancellation
    \/ RejectCancellation

(* lifespan starts the daemon and the processor; both loops keep running   *)
SpecExpire ==
    /\ Init
    /\ [][NextExpire]_vars
    /\ WF_vars(CheckAndExpire)
    /\ WF_vars(ProcessMessage)

(* the exchange of Spec with restarts of the router                        *)
NextRestart ==
    \/ Submit
    \/ ProcessNewOrder
    \/ RestartRouter

SpecRestart == Init /\ [][NextRestart]_vars

(* callers that may leave the limit price out with any order type         *)
SubmitAnyPrice ==
    /\ Len(orders) < MaxOrders
    /\ \E trader_id \in Traders, side \in Sides, order_type \in OrderTypes,
          quantity \in Quantities :
           \E limit_price \in LimitPrices(order_type) \cup {None} :
               PlaceOrder(trader_id, side, order_type, quantity, limit_price)

(* the exchange of Spec under such callers                                 *)
NextSubmit ==
    \/ SubmitAnyPrice
    \/ ProcessPriced
    \/ ProcessMeetingNone

SpecSubmit == Init /\ [][NextSubmit]_vars

(* the exchange of Spec seen by a reader that runs while the processor is *)
(* suspended in its trade loop                                             *)
NextRead ==
    \/ Submit
    \/ ProcessUnmatched
    \/ MatchInMemory
    \/ ResumeNewOrder

SpecRead == Init /\ [][NextRead]_vars

(* start() with a message at hand, whether storage is up or down         *)
HandleMessage == ProcessNewOrder \/ StorageFails

(* the order flow of SpecPublish on storage that fails at most MaxFaults   *)
(* times; the processor task keeps being scheduled                         *)
NextFault ==
    \/ SubmitFeed
    \/ ProcessNewOrder
    \/ StorageFails

SpecFault == Init /\ [][NextFault]_vars /\ WF_vars(HandleMessage)

(* the order flow of the first symbol: offers at the lowest price and     *)
(* bids at MaxPrice, which cross                                           *)
SubmitCrossing ==
    /\ Len(orders) < MaxOrders
    /\ \E trader_id \in Traders, quantity \in Quantities :
           \/ PlaceOrder(trader_id, "SELL", "LIMIT", quantity, 1)
           \/ PlaceOrder(trader_id, "BUY", "LIMIT", quantity, MaxPrice)

(* bids for single shares of the second symbol at the lowest price       *)
SubmitOther ==
    /\ Len(other.orders) < MaxOtherOrders
    /\ \E trader_id \in Traders : PlaceOrderOther(trader_id, 1, 1)

(* _process_cancellation, taken up only when no message is in flight       *)
ProcessCancelMessage == suspended = <<>> /\ ProcessCancellation

RejectCancelMessage == suspended = <<>> /\ RejectCancellation

(* one step of the first symbol's processor task                           *)
ProcessorStep ==
    \/ ProcessUnmatched
    \/ MatchInMemory
    \/ ResumeNewOrder
    \/ ProcessCancelMessage
    \/ RejectCancelMessage

(* the exchange under that order flow with cancellations and two symbols,  *)
(* each with its own processor task                                        *)
NextSymbols ==
    \/ SubmitCrossing
    \/ Cancel
    \/ ProcessUnmatched
    \/ MatchInMemory
    \/ ResumeNewOrder
    \/ ProcessCancelMessage
    \/ RejectCancelMessage
    \/ SubmitOther
    \/ ProcessOther

SpecSymbols == Init /\ [][NextSymbols]_vars

(* requests reach the trading service only while the application serves   *)
ServeSubmit == Serving /\ SubmitCrossing

ServeCancel == Serving /\ Cancel

(* the processor task exists only once initialize has created it           *)
RunNewOrder == ~starting /\ ProcessNewOrder

RunCancellation == ~starting /\ ProcessCancellation

RunRejection == ~starting /\ RejectCancellation

(* the exchange with a startup in two steps: the processor is registered,  *)
(* then its book is rebuilt and its task created                           *)
NextStartup ==
    \/ ServeSubmit
    \/ ServeCancel
    \/ RunNewOrder
    \/ RunCancellation
    \/ RunRejection
    \/ BeginInitialize
    \/ CompleteRebuild

SpecStartup == Init /\ [][NextStartup]_vars

(* the order flow of SpecPublish with an administrator who seeds the      *)
(* treasury again while the exchange runs                                  *)
NextSeed ==
    \/ SubmitFeed
    \/ ProcessNewOrder
    \/ SeedTreasury

SpecSeed == Init /\ [][NextSeed]_vars

(* the exchange with submitters that are suspended between commit and      *)
(* enqueue, user cancels and the expiration daemon                         *)
NextCancel ==
    \/ SubmitSuspended
    \/ Enqueue
    \/ Cancel
    \/ Expire
    \/ ProcessNewOrder
    \/ ProcessCancellation
    \/ RejectCancellation

SpecCancel == Init /\ [][NextCancel]_vars

(* an order flow that builds depth on the bid side: bids of any size below *)
(* the treasury's ask, and single shares bought and sold at the market     *)
SubmitDepth ==
    /\ Len(orders) < MaxFeedOrders
    /\ \E trader_id \in Traders :
           \/ \E quantity \in 1..MaxQty :
                  PlaceOrder(trader_id, "BUY", "LIMIT", quantity, 1)
           \/ PlaceOrder(trader_id, "BUY", "MARKET", 1, None)
           \/ PlaceOrder(trader_id, "SELL", "MARKET", 1, None)

NextDepth ==
    \/ SubmitDepth
    \/ ProcessNewOrder

SpecDepth == Init /\ [][NextDepth]_vars

(* the position repository on its own: a position row is missing or holds  *)
(* what a first buy or the treasury issue wrote, and the two updates are   *)
(* called on it with any quantity and price                                *)
InitHoldings ==
    /\ positions \in
           [Traders -> {[exists |-> FALSE, quantity |-> 0, avg_cost |-> 0]}
                       \cup [exists : {TRUE}, quantity : 1..InitShares,
                             avg_cost : 0..MaxPrice]]
    /\ orders = InitOrders
    /\ last_sequence = GetNextSequence(None)
    /\ trades = <<>>
    /\ ledger = InitLedger
    /\ outbox = <<>>
    /\ bids = EmptySide
    /\ asks = AddOrderToBook(EmptySide, InitOrders[1])
    /\ last_price_in_cents = None
    /\ order_queue = <<>>
    /\ inflight = {}
    /\ cancels_sent = 0
    /\ claimed = [w \in Workers |-> <<>>]
    /\ cursor = [w \in Workers |-> 0]
    /\ channel = <<>>
    /\ faults = 0
    /\ tx = [t \in Traders |-> NoTx]
    /\ expired = {}
    /\ restarts = 0
    /\ starting = FALSE
    /\ seeds = 0
    /\ suspended = <<>>
    /\ other = [orders |-> <<>>, last_sequence |-> None, bids |-> EmptySide,
                asks |-> EmptySide, last_price_in_cents |-> None,
                order_queue |-> <<>>]

(* one call of update_for_buy_without_commit, committed by its caller      *)
BuyCall(trader_id, quantity, price_in_cents) ==
    /\ positions[trader_id].quantity + quantity <= MaxHeld
    /\ positions' = UpdateForBuy(positions, trader_id, quantity, price_in_cents)
    /\ UNCHANGED <<orders, last_sequence, trades, ledger, outbox, bookVars,
                   order_queue, inflight, cancels_sent, sideVars>>

(* one call of update_for_sell_without_commit: the ValueError leaves the   *)
(* method before the assignment to position.quantity                       *)
SellCall(trader_id, quantity) ==
    /\ positions' = IF SellRaises(positions, trader_id, quantity) THEN positions
                    ELSE UpdateForSell(positions, trader_id, quantity)
    /\ UNCHANGED <<orders, last_sequence, trades, ledger, outbox, bookVars,
                   order_queue, inflight, cancels_sent, sideVars>>

UpdateForBuyStep ==
    \E t \in Traders, q \in 1..MaxQty, p \in 1..MaxPrice : BuyCall(t, q, p)

UpdateForSellStep ==
    \E t \in Traders, q \in 1..MaxQty : SellCall(t, q)

NextPositions ==
    \/ UpdateForBuyStep
    \/ UpdateForSellStep

SpecPositions == InitHoldings /\ [][NextPositions]_vars

(* ------------------------------ properties ---------------------------- *)
RECURSIVE SumInts(_)
SumInts(s) == IF s = <<>> THEN 0 ELSE Head(s) + SumInts(Tail(s))

(* price * quantity over the trades a trader bought in, and sold in        *)
CashPaid(trader_id) ==
    SumInts([k \in 1..Len(trades) |->
                IF trades[k].buyer_id = trader_id
                THEN trades[k].price_in_cents * trades[k].quantity ELSE 0])

CashReceived(trader_id) ==
    SumInts([k \in 1..Len(trades) |->
                IF trades[k].seller_id = trader_id
                THEN trades[k].price_in_cents * trades[k].quantity ELSE 0])

QtyBought(trader_id) ==
    SumInts([k \in 1..Len(trades) |->
                IF trades[k].buyer_id = trader_id THEN trades[k].quantity ELSE 0])

QtySold(trader_id) ==
    SumInts([k \in 1..Len(trades) |->
                IF trades[k].seller_id = trader_id THEN trades[k].quantity ELSE 0])

QtyTraded == SumInts([k \in 1..Len(trades) |-> trades[k].quantity])

FilledOn(side) ==
    SumInts([i \in 1..Len(orders) |->
                IF orders[i].side = side THEN orders[i].filled_quantity ELSE 0])

InitialFunding(trader_id) == IF trader_id = "A" THEN InitCash ELSE 0
InitialShares(trader_id) == IF trader_id = "B" THEN InitShares ELSE 0

(* the entries of one side of the book with their price level and their    *)
(* position in the level's queue                                           *)
BookEntries(book_side) ==
    UNION { { [order_id |-> book_side[p][k].order_id, price |-> p, pos |-> k,
               remaining |-> book_side[p][k].remaining_quantity] :
                 k \in 1..Len(book_side[p]) } : p \in DOMAIN book_side }

BookIds == { e.order_id : e \in BookEntries(bids) \cup BookEntries(asks) }

LiveIds == { i \in 1..Len(orders) : orders[i].status \in LiveStatuses }

(* what an order has left in one side of the book, 0 when it is not there  *)
RemainingIn(book_side, order_id) ==
    LET es == { e \in BookEntries(book_side) : e.order_id = order_id }
    IN IF es = {} THEN 0 ELSE (CHOOSE e \in es : TRUE).remaining

(* C1: for every trader the cash balance read from the ledger equals the   *)
(* initial funding minus price * quantity over the trades bought plus      *)
(* price * quantity over the trades sold                                   *)
C1_CashFollowsTrades ==
    \A t \in Traders :
        GetCashBalance(ledger, t) = InitialFunding(t) - CashPaid(t) + CashReceived(t)

(* C2: in every committed state the filled quantities of the BUY orders,   *)
(* the filled quantities of the SELL orders and the quantities of the      *)
(* trades sum to the same number                                           *)
C2_FillsBalance ==
    /\ FilledOn("BUY") = FilledOn("SELL")
    /\ FilledOn("SELL") = QtyTraded

(* C2 witness: a trade is committed that fills one order and leaves the    *)
(* other filled in part                                                    *)
C2_Witness ==
    /\ trades # <<>>
    /\ \E i \in 1..Len(orders) : orders[i].status = "PARTIAL"
    /\ \E i \in 1..Len(orders) : orders[i].status = "FILLED"

(* C3: in every committed state each position is >= 0 and equals the       *)
(* shares issued to the trader plus the quantities bought minus the        *)
(* quantities sold in committed trades                                     *)
C3_PositionFollowsTrades ==
    \A t \in Traders :
        /\ positions[t].quantity >= 0
        /\ positions[t].quantity = InitialShares(t) + QtyBought(t) - QtySold(t)

(* C3 witness: the treasury has sold issued shares to the other trader     *)
C3_Witness ==
    /\ positions["A"].quantity > 0
    /\ positions["B"].quantity < InitShares

(* C4: whenever the processor is idle the ids resting in the book are the  *)
(* ids of the orders whose status is PENDING or PARTIAL, whatever the      *)
(* order type                                                              *)
C4_BookIsLiveOrders ==
    order_queue = <<>> => BookIds = LiveIds

(* a step of the processor that takes a NewOrder message off the queue,    *)
(* the order it carries and what match_order returns for it                *)
TakesNewOrder ==
    /\ order_queue # <<>>
    /\ Head(order_queue).message_type = "NEW_ORDER"
    /\ order_queue' = Tail(order_queue)

TakerId == Head(order_queue).order_id
Taker == orders[TakerId]
Matched == NewOrderOutcome(TakerId).matched
Committed == ~NewOrderOutcome(TakerId).db.failed

(* C5: once an order is FILLED, CANCELLED or EXPIRED no step changes its   *)
(* status or its filled_quantity, and no step lowers a filled_quantity,    *)
(* under every interleaving of submitters, cancels and the expiration      *)
(* daemon                                                                  *)
C5_TerminalIsFinal ==
    [][\A i \in 1..Len(orders) :
          /\ orders[i].status \in TerminalStatuses =>
                /\ orders'[i].status = orders[i].status
                /\ orders'[i].filled_quantity = orders[i].filled_quantity
          /\ orders'[i].filled_quantity >= orders[i].filled_quantity]_vars

(* C6: every order has 0 <= filled_quantity <= quantity and is FILLED      *)
(* exactly when filled_quantity = quantity; an order that is still live    *)
(* with a partial fill is PARTIAL, and a step that raises filled_quantity  *)
(* leaves the order PARTIAL while the fill is partial and FILLED when it   *)
(* is complete                                                             *)
C6_FillStatus ==
    /\ [](\A i \in 1..Len(orders) :
            /\ 0 <= orders[i].filled_quantity
            /\ orders[i].filled_quantity <= orders[i].quantity
            /\ orders[i].status = "FILLED" <=>
                  orders[i].filled_quantity = orders[i].quantity
            /\ (orders[i].status \in LiveStatuses /\ orders[i].filled_quantity > 0)
                  => orders[i].status = "PARTIAL")
    /\ [][\A i \in 1..Len(orders) :
            orders'[i].filled_quantity > orders[i].filled_quantity =>
                orders'[i].status =
                    IF orders'[i].filled_quantity = orders'[i].quantity
                    THEN "FILLED" ELSE "PARTIAL"]_vars

(* C6 witness: one trade has filled the maker and left the taker PARTIAL   *)
C6_Witness ==
    \E i, j \in 1..Len(orders) :
        /\ orders[i].status = "PARTIAL"
        /\ orders[i].filled_quantity > 0
        /\ orders[i].filled_quantity < orders[i].quantity
        /\ orders[j].status = "FILLED"

(* f is ahead of e in the price-time order of the makers' side             *)
Ahead(f, e, maker_side) ==
    \/ maker_side = "SELL" /\ f.price < e.price
    \/ maker_side = "BUY" /\ f.price > e.price
    \/ f.price = e.price /\ f.pos < e.pos

(* the quantities of the trades before the k-th one, of all makers and of  *)
(* one maker                                                               *)
FilledBefore(trs, k) == SumInts([j \in 1..(k - 1) |-> trs[j].quantity])

MakerFilledBefore(trs, k, maker_order_id) ==
    SumInts([j \in 1..(k - 1) |->
                IF trs[j].maker_order_id = maker_order_id
                THEN trs[j].quantity ELSE 0])

(* C7: when an order is matched, a maker is filled only if every maker     *)
(* ahead of it (better price, or same price and earlier in the queue) is   *)
(* left with nothing, and every fill is min(taker remaining, maker         *)
(* remaining)                                                              *)
C7_PriceTimePriority ==
    [][TakesNewOrder =>
        LET maker_side == OppositeSide(Taker.side)
            pre == IF Taker.side = "BUY" THEN asks ELSE bids
            post == IF Taker.side = "BUY" THEN asks' ELSE bids'
        IN /\ \A e \in BookEntries(pre) :
                RemainingIn(post, e.order_id) < e.remaining =>
                    \A f \in BookEntries(pre) :
                        Ahead(f, e, maker_side) => RemainingIn(post, f.order_id) = 0
           /\ \A k \in 1..Len(Matched) :
                Matched[k].quantity =
                    Min(Taker.quantity - Taker.filled_quantity
                            - FilledBefore(Matched, k),
                        RemainingIn(pre, Matched[k].maker_order_id)
                            - MakerFilledBefore(Matched, k, Matched[k].maker_order_id))
    ]_vars

(* C7 witness: a BUY taker has traded while an ask that was behind the     *)
(* maker, at the same or a worse price, still rests in the book            *)
C7_Witness ==
    \E k \in 1..Len(trades), e \in BookEntries(asks) :
        /\ trades[k].taker_order_id = trades[k].buy_order_id
        /\ e.price >= trades[k].price_in_cents
        /\ e.order_id # trades[k].maker_order_id

(* the price level at which an order rests in one side of the book         *)
RestingPrice(book_side, order_id) ==
    (CHOOSE e \in BookEntries(book_side) : e.order_id = order_id).price

C9_IocRespectsLimit ==
    [][(/\ TakesNewOrder
        /\ Taker.order_type = "IOC"
        /\ Taker.limit_price # None
        /\ \A e \in BookEntries(IF Taker.side = "BUY" THEN asks ELSE bids) :
              IF Taker.side = "BUY" THEN e.price > Taker.limit_price
              ELSE e.price < Taker.limit_price)
       => /\ trades' = trades
          /\ orders'[TakerId].status = "EXPIRED"
          /\ orders'[TakerId].cancel_reason = "IOC_UNFILLED"
          /\ bids' = bids
          /\ asks' = asks
    ]_vars

(* C10: an IOC order with a partial fill is EXPIRED with cancel_reason     *)
(* IOC_UNFILLED once its message is processed, and does not rest in the    *)
(* book                                                                    *)
C10_IocPartialExpires ==
    \A i \in 1..Len(orders) :
        (/\ orders[i].order_type = "IOC"
         /\ orders[i].filled_quantity > 0
         /\ orders[i].filled_quantity < orders[i].quantity)
        => /\ orders[i].status = "EXPIRED"
           /\ orders[i].cancel_reason = "IOC_UNFILLED"
           /\ i \notin BookIds

(* C11: a MARKET order sweeps the opposite side, whatever the prices, until *)
(* it has nothing left or the side is empty, and never rests in the book;  *)
(* against an empty opposite side it makes no trade and changes no side    *)
C11_MarketNeverRests ==
    /\ [](\A i \in BookIds : orders[i].order_type # "MARKET")
    /\ [][(TakesNewOrder /\ Taker.order_type = "MARKET") =>
            LET pre == IF Taker.side = "BUY" THEN asks ELSE bids
                post == IF Taker.side = "BUY" THEN asks' ELSE bids'
                wanted == Taker.quantity - Taker.filled_quantity
            IN /\ \/ FilledBefore(Matched, Len(Matched) + 1) = wanted
                  \/ DOMAIN post = {}
               /\ TakerId \notin { e.order_id : e \in BookEntries(bids') }
               /\ TakerId \notin { e.order_id : e \in BookEntries(asks') }
               /\ DOMAIN pre = {} =>
                     /\ Matched = <<>>
                     /\ trades' = trades
                     /\ bids' = bids
                     /\ asks' = asks
          ]_vars

(* C11 witness: a MARKET order was filled in part, emptied the opposite    *)
(* side and is not in the book                                             *)
C11_Witness ==
    \E i \in 1..Len(orders) :
        /\ orders[i].order_type = "MARKET"
        /\ orders[i].side = "BUY"
        /\ orders[i].filled_quantity > 0
        /\ orders[i].filled_quantity < orders[i].quantity
        /\ DOMAIN asks = {}
        /\ i \notin BookIds

(* an incoming LIMIT BUY that no ask can cross: the ask side is empty or   *)
(* its best price is above the limit                                       *)
TakesUncrossedLimitBuy ==
    /\ TakesNewOrder
    /\ Taker.order_type = "LIMIT"
    /\ Taker.side = "BUY"
    /\ DOMAIN asks = {} \/ FirstKey(asks, "SELL") > Taker.limit_price

(* C12 as stated: a LIMIT BUY at price P, when the best ask is above P or  *)
(* the ask side is empty, makes no trade and rests as the new best bid     *)
C12_RestsAsBestBid ==
    [][TakesUncrossedLimitBuy =>
          /\ trades' = trades
          /\ DOMAIN bids' # {}
          /\ TakerId \in { e.order_id : e \in BookEntries(bids') }
          /\ FirstKey(bids', "BUY") = Taker.limit_price
      ]_vars

(* C12 amended: such an order makes no trade, leaves the asks alone and    *)
(* rests at P behind the bids already at P; the best bid afterwards is the *)
(* higher of P and the best bid before                                     *)
C12_RestsBehindBids ==
    [][TakesUncrossedLimitBuy =>
          LET P == Taker.limit_price
              old == IF P \in DOMAIN bids THEN bids[P] ELSE <<>>
              entry == [order_id |-> TakerId, trader_id |-> Taker.trader_id,
                        remaining_quantity |-> Taker.quantity,
                        price_in_cents |-> P, sequence |-> Taker.sequence]
          IN /\ Matched = <<>>
             /\ trades' = trades
             /\ asks' = asks
             /\ bids' = SetLevel(bids, P, Append(old, entry))
             /\ FirstKey(bids', "BUY") =
                   IF DOMAIN bids # {} /\ FirstKey(bids, "BUY") > P
                   THEN FirstKey(bids, "BUY") ELSE P
      ]_vars

(* C12 witness: a LIMIT BUY rests untouched below the best ask, behind an  *)
(* earlier bid at the same price                                           *)
C12_Witness ==
    \E p \in DOMAIN bids :
        /\ Len(bids[p]) >= 2
        /\ DOMAIN asks # {}
        /\ FirstKey(asks, "SELL") > p
        /\ orders[bids[p][2].order_id].filled_quantity = 0
        /\ bids[p][1].sequence < bids[p][2].sequence

(* the quantity filled on one order by the committed trades                *)
TradedOn(order_id) ==
    SumInts([k \in 1..Len(trades) |->
                IF order_id \in {trades[k].buy_order_id, trades[k].sell_order_id}
                THEN trades[k].quantity ELSE 0])

(* C13: settlement is atomic per NewOrder message.  Every committed trade  *)
(* has its four ledger entries, its outbox row, its fills on both orders   *)
(* and its position updates; a message commits all the trades of its match *)
(* or, when a step fails, leaves every table as it was                     *)
C13_SettlementAtomic ==
    /\ [](/\ Len(ledger) = Len(InitLedger) + 4 * Len(trades)
          /\ \A k \in 1..Len(trades) :
                Cardinality({ j \in 1..Len(ledger) :
                                ledger[j].trade_id = trades[k].trade_id }) = 4
          /\ Len(outbox) = Len(trades)
          /\ \A i \in 1..Len(orders) : orders[i].filled_quantity = TradedOn(i)
          /\ \A t \in Traders :
                positions[t].quantity = InitialShares(t) + QtyBought(t) - QtySold(t))
    /\ [][TakesNewOrder =>
            IF Committed
            THEN Len(trades') = Len(trades) + Len(Matched)
            ELSE /\ Matched # <<>>
                 /\ UNCHANGED <<orders, trades, ledger, positions, outbox>>
         ]_vars

(* C13 witness: a message was rolled back after its first trade had been   *)
(* settled inside the transaction (the book kept that trade's price), and  *)
(* no trade is committed                                                   *)
C13_Witness ==
    /\ last_price_in_cents # None
    /\ trades = <<>>
    /\ ledger = InitLedger
    /\ order_queue = <<>>

(* the outbox row at position k is the TRADE event of the k-th trade       *)
EventOf(k) ==
    /\ outbox[k].event_type = "TRADE"
    /\ outbox[k].trade.price_in_cents = trades[k].price_in_cents
    /\ outbox[k].trade.quantity = trades[k].quantity

(* C14: every committed trade has exactly one outbox row, a TRADE event    *)
(* with the trade's price and quantity, appended by the transaction that   *)
(* recorded the trade; a rolled-back NewOrder message leaves no outbox row *)
C14_OneOutboxRowPerTrade ==
    /\ [](/\ Len(outbox) = Len(trades)
          /\ \A k \in 1..Len(trades) : EventOf(k))
    /\ [][TakesNewOrder =>
            IF Committed
            THEN /\ Len(outbox') - Len(outbox) = Len(trades') - Len(trades)
                 /\ SubSeq(outbox', 1, Len(outbox)) = outbox
            ELSE outbox' = outbox
         ]_vars

(* C14 witness: a trade is committed and its outbox row is there           *)
C14_Witness ==
    /\ Len(trades) = 1
    /\ Len(outbox) = 1
    /\ EventOf(1)
    /\ ~outbox[1].published



(* most outbox rows a run can commit: one per unit of quantity             *)
MaxEvents == MaxOrders * MaxQty

(* row k of the outbox is there and carries published = true               *)
IsPublished(k) == Len(outbox) >= k /\ outbox[k].published

(* C15: every committed outbox row is eventually published=true while the  *)
(* exchange is running                                                     *)
C15_EventuallyPublished ==
    \A k \in 1..MaxEvents :
        [](Len(outbox) >= k => <>IsPublished(k))

(* a step in which a worker's batch fails                                  *)
BatchFails == faults' = faults + 1

(* the rows of the worker whose batch fails in this step                   *)
FailedRows == UNION { Range(claimed[w]) : w \in { v \in Workers : claimed'[v] # claimed[v] } }

(* C16: delivery is at-least-once.  A row carries published = true only    *)
(* after its event went out on the channel at least once; a batch that     *)
(* fails after some events were sent leaves its rows unpublished and       *)
(* unlocked, and with the workers running the outbox is again and again    *)
(* fully published, so every row is published after it was committed, the  *)
(* rows of a failed batch having been sent again                           *)
C16_AtLeastOnce ==
    /\ [](\A k \in 1..Len(outbox) : outbox[k].published => Sent(channel, k) >= 1)
    /\ [][BatchFails =>
            /\ outbox' = outbox
            /\ channel' = channel
            /\ \A k \in FailedRows :
                   /\ ~outbox'[k].published
                   /\ \A w \in Workers : k \notin Range(claimed'[w])
         ]_vars
    /\ []<>(\A k \in 1..Len(outbox) : outbox[k].published)

(* C16 witness: a batch failed after its event was sent, and a later batch *)
(* sent the event again and published the row                              *)
C16_Witness ==
    /\ faults = 1
    /\ \E k \in 1..Len(outbox) : outbox[k].published /\ Sent(channel, k) = 2

(* C17: with two publisher workers no outbox row is in the claimed batch   *)
(* of both at the same time; as long as no batch has failed no event went  *)
(* out more than once and every published row's event went out exactly     *)
(* once; a published flag that is true stays true                          *)
C17_DisjointClaims ==
    /\ [](/\ \A w, v \in Workers :
                w # v => Range(claimed[w]) \cap Range(claimed[v]) = {}
          /\ faults = 0 =>
                \A k \in 1..Len(outbox) :
                    /\ Sent(channel, k) <= 1
                    /\ outbox[k].published => Sent(channel, k) = 1)
    /\ [][\A k \in 1..Len(outbox) :
              outbox[k].published => outbox'[k].published]_vars

(* C17 witness: both workers hold a batch at the same time, one has        *)
(* already sent its event, and no batch has failed                         *)
C17_Witness ==
    /\ faults = 0
    /\ claimed["w1"] # <<>>
    /\ claimed["w2"] # <<>>
    /\ cursor["w1"] = 1
    /\ Sent(channel, claimed["w1"][1]) = 1

(* C18: under concurrent order inserts the sequence numbers of the orders  *)
(* are distinct and strictly increasing in insertion order, starting at 1, *)
(* and the counter row always holds the largest of them                    *)
C18_SequenceIncreasing ==
    /\ [](/\ orders[1].sequence = 1
          /\ \A i, j \in 1..Len(orders) :
                i < j => orders[i].sequence < orders[j].sequence
          /\ last_sequence = orders[Len(orders)].sequence)
    /\ [][Len(orders') > Len(orders) =>
            /\ orders'[Len(orders')].sequence = last_sequence'
            /\ last_sequence' > last_sequence]_vars

(* C18 witness: two submitters have committed an insert each, one         *)
(* transaction was rolled back, and another one holds the counter row with *)
(* the next sequence number                                                *)
C18_Witness ==
    /\ Len(orders) = 3
    /\ orders[2].trader_id # orders[3].trader_id
    /\ orders[3].sequence = 3
    /\ faults = 1
    /\ \E t \in Traders : tx[t] # NoTx /\ tx[t].sequence = 4

(* the processor takes a Cancel message off its queue                      *)
TakesCancel ==
    /\ order_queue # <<>>
    /\ Head(order_queue).message_type = "CANCEL_ORDER"
    /\ order_queue' = Tail(order_queue)

(* a cancel request or an expiry check puts a Cancel message on the queue  *)
SendsCancel == cancels_sent' = cancels_sent + 1

(* C19: cancel idempotence.  A Cancel message for an order in a terminal   *)
(* state changes neither the orders table nor the book, and no cancel      *)
(* request is accepted for such an order; of the Cancel messages sent for  *)
(* one live order only the first that finds it live changes its status:    *)
(* an order is never taken to CANCELLED or EXPIRED a second time           *)
C19_CancelIdempotent ==
    /\ [][TakesCancel =>
            LET o == Head(order_queue).order_id
            IN  /\ orders[o].status \in TerminalStatuses =>
                       orders' = orders /\ bids' = bids /\ asks' = asks
                /\ orders'[o].status # orders[o].status =>
                       orders[o].cancel_reason \notin {"USER", "EXPIRED"}
         ]_vars
    /\ [][SendsCancel =>
            orders[order_queue'[Len(order_queue')].order_id].status \in LiveStatuses
         ]_vars

(* order o is live and its expires_at has passed                           *)
LiveExpired(o) ==
    /\ o <= Len(orders)
    /\ o \in expired
    /\ orders[o].status \in LiveStatuses

(* order o has been expired by the daemon and is out of the book           *)
ExpiredAndGone(o) ==
    /\ o <= Len(orders)
    /\ orders[o].status = "EXPIRED"
    /\ orders[o].cancel_reason = "EXPIRED"
    /\ o \notin BookIds

(* C20: every order that is PENDING or PARTIAL when its expires_at has     *)
(* passed eventually has status EXPIRED with cancel_reason EXPIRED and is  *)
(* out of the book                                                         *)
C20_ExpiredOrdersExpire ==
    \A o \in 1..MaxOrders : [](LiveExpired(o) => <>ExpiredAndGone(o))

(* the processor takes a NewOrder message and its transaction commits      *)
CommitsNewOrder == TakesNewOrder /\ restarts' = restarts /\ Committed

(* C21: restart equivalence.  Whenever a message has committed and the     *)
(* inbox is empty, the book a restart would rebuild from the orders table  *)
(* is the book the processor holds: the same levels, the same entries in   *)
(* the same FIFO order with the same remaining quantities; and a restart   *)
(* at such a point leaves the book as it was                               *)
C21_RebuildEqualsBook ==
    /\ [][CommitsNewOrder /\ order_queue' = <<>> =>
            /\ RebuildBook(orders', "BUY") = bids'
            /\ RebuildBook(orders', "SELL") = asks']_vars
    /\ [][restarts' = restarts + 1 /\ order_queue = <<>> /\ restarts = 0 =>
            bids' = bids /\ asks' = asks]_vars

(* the order row a submission has just committed                           *)
NewRow == orders'[Len(orders')]

(* C22: submission validates before accepting.  A step that commits an     *)
(* order row commits exactly one, PENDING, with the next sequence number,  *)
(* and enqueues exactly its NewOrder message; the row is a BUY LIMIT only  *)
(* if the trader's cash covers quantity * limit_price, a SELL only if the  *)
(* trader's position covers the quantity, a LIMIT only with a limit price; *)
(* a step that commits no order row consumes no sequence number            *)
C22_ValidatedSubmission ==
    /\ [][Len(orders') # Len(orders) =>
            /\ Len(orders') = Len(orders) + 1
            /\ SubSeq(orders', 1, Len(orders)) = orders
            /\ NewRow.status = "PENDING"
            /\ NewRow.filled_quantity = 0
            /\ NewRow.sequence = last_sequence + 1
            /\ last_sequence' = last_sequence + 1
            /\ order_queue' = Append(order_queue, NewOrderMessage(Len(orders')))
            /\ NewRow.side = "BUY" /\ NewRow.order_type = "LIMIT" =>
                  GetCashBalance(ledger, NewRow.trader_id)
                      >= NewRow.quantity * NewRow.limit_price
            /\ NewRow.side = "SELL" =>
                  positions[NewRow.trader_id].quantity >= NewRow.quantity
            /\ NewRow.order_type = "LIMIT" => NewRow.limit_price # None
         ]_vars
    /\ [][Len(orders') = Len(orders) => last_sequence' = last_sequence]_vars

(* C23: the last price reported by the price read equals the price of    *)
(* the most recent committed trade, and is absent only when no trade is    *)
(* committed, in every state reached by processing messages, rolling back  *)
(* and restarting the router                                               *)
C23_LastPriceIsLastTrade ==
    GetCurrentPrice = IF trades = <<>> THEN None
                      ELSE trades[Len(trades)].price_in_cents

(* the entries of every price level of one side are in ascending sequence *)
AscendingLevels(book_side) ==
    \A p \in DOMAIN book_side :
        \A k, l \in 1..Len(book_side[p]) :
            k < l => orders[book_side[p][k].order_id].sequence
                       < orders[book_side[p][l].order_id].sequence

(* C24: in every reachable state the entries at each price level of the    *)
(* book are in ascending sequence order, also when submitters enqueue      *)
(* their NewOrder messages in the opposite order to their sequence numbers *)
C24_LevelsInSequenceOrder == AscendingLevels(bids) /\ AscendingLevels(asks)

(* C25: after a NewOrder message whose transaction is rolled back the    *)
(* in-memory book agrees with durable storage again: every maker that was  *)
(* in the book before the message is in it afterwards with                 *)
(* remaining = quantity - filled_quantity                                  *)
C25_BookRestoredOnRollback ==
    [][TakesNewOrder /\ ~Committed =>
          \A e \in BookEntries(bids) \cup BookEntries(asks) :
              RemainingIn(IF orders'[e.order_id].side = "BUY" THEN bids' ELSE asks',
                          e.order_id)
                = orders'[e.order_id].quantity - orders'[e.order_id].filled_quantity
    ]_vars

(* C26: a book snapshot taken while the processor is suspended inside a  *)
(* message's transaction shows no book change of that transaction: a step  *)
(* that ends with the transaction open leaves the snapshot as it was       *)
C26_SnapshotIsCommitted ==
    [][suspended' # <<>> => GetOrderBookSnapshot' = GetOrderBookSnapshot]_vars

(* the trade of the message at the head of the queue on which the trade   *)
(* loop raises                                                             *)
FailingTrade ==
    Matched[Len(NewOrderOutcome(TakerId).db.trades) - Len(trades) + 1]

(* the loop raises on that trade because the seller's shares are short     *)
SellerIsShort ==
    /\ ~Committed
    /\ SellRaises(UpdateForBuy(NewOrderOutcome(TakerId).db.positions,
                               FailingTrade.buyer_id, FailingTrade.quantity,
                               FailingTrade.price_in_cents),
                  FailingTrade.seller_id, FailingTrade.quantity)

(* C27: when the seller's shares turn out short only at matching time, the *)
(* sell order is recorded durably as CANCELLED with cancel_reason          *)
(* INSUFFICIENT_FUNDS and no fill of it is committed                       *)
C27_ShortSellerCancelled ==
    [][TakesNewOrder /\ SellerIsShort =>
          /\ orders'[FailingTrade.sell_order_id].status = "CANCELLED"
          /\ orders'[FailingTrade.sell_order_id].cancel_reason = "INSUFFICIENT_FUNDS"
          /\ orders'[FailingTrade.sell_order_id].filled_quantity
               = orders[FailingTrade.sell_order_id].filled_quantity
    ]_vars

(* the NewOrder message of order i is in the inbox                        *)
NewOrderQueued(i) ==
    \E k \in 1..Len(order_queue) : order_queue[k] = NewOrderMessage(i)

(* the NewOrder message of LIMIT order i has been applied: the order has   *)
(* rested, traded or reached a terminal status                             *)
Applied(i) ==
    /\ i <= Len(orders)
    /\ \/ i \in BookIds
       \/ orders[i].filled_quantity > 0
       \/ orders[i].status \notin LiveStatuses

(* C28: a NewOrder message whose transaction fails on a storage error is   *)
(* not dropped but retried: once storage has recovered every enqueued      *)
(* message of a LIMIT order is eventually applied                          *)
C28_FailedMessageRetried ==
    \A i \in 2..MaxFeedOrders :
        [](NewOrderQueued(i) /\ orders[i].order_type = "LIMIT" => <>Applied(i))

(* a step appends one message to the first symbol's inbox                 *)
Enqueues ==
    /\ Len(order_queue') = Len(order_queue) + 1
    /\ SubSeq(order_queue', 1, Len(order_queue)) = order_queue

(* a step takes the head off the first symbol's inbox                      *)
TakesHead == order_queue # <<>> /\ order_queue' = Tail(order_queue)

(* C29: within one symbol messages are applied one at a time in the order  *)
(* they were enqueued: the inbox only grows at its end and shrinks at its  *)
(* head, the message in flight is the head and stays there until it is     *)
(* done, and tables and book change only with it; the processor can always *)
(* take a step while its inbox is not empty, also after a failed message;  *)
(* and a step of one symbol's processor leaves the other symbol's book and *)
(* inbox unchanged                                                         *)
C29_SequentialAndIsolated ==
    /\ [][order_queue' # order_queue => Enqueues \/ TakesHead]_vars
    /\ [][suspended # <<>> /\ order_queue' # order_queue =>
             Enqueues \/ suspended' = <<>>]_vars
    /\ [][bookVars' # bookVars \/ trades' # trades \/ positions' # positions =>
             /\ order_queue # <<>>
             /\ TakesHead \/ (suspended = <<>> /\ suspended' # <<>>)]_vars
    /\ [](order_queue # <<>> => ENABLED ProcessorStep)
    /\ [][TakesHead \/ suspended' # suspended => other' = other]_vars
    /\ [][other.order_queue # <<>> /\ other.order_queue' = Tail(other.order_queue)
             => /\ bookVars' = bookVars
                /\ order_queue' = order_queue
                /\ dbVars' = dbVars]_vars

(* C29 witness: a message failed and was rolled back, the Cancel message   *)
(* behind it was applied afterwards, and the second symbol's processor put *)
(* an order into its own book                                              *)
C29_Witness ==
    /\ last_price_in_cents # None
    /\ trades = <<>>
    /\ \E i \in 1..Len(orders) : orders[i].status = "CANCELLED"
    /\ order_queue = <<>>
    /\ other.bids # EmptySide

(* the order the Cancel message at the head of the inbox names            *)
CancelledId == Head(order_queue).order_id

(* a book side without the entries of order_id: each level keeps its other *)
(* entries in their order and a level left empty is gone                   *)
WithoutOrder(book_side, order_id) ==
    LET Others(level) ==
            LET Keep(e) == e.order_id # order_id IN SelectSeq(level, Keep)
        ps == { p \in DOMAIN book_side : Others(book_side[p]) # <<>> }
    IN [p \in ps |-> Others(book_side[p])]

(* C30: processing a Cancel message for a live order sets its status to    *)
(* CANCELLED for the reason USER and to EXPIRED for the reason EXPIRED,    *)
(* records the reason, takes the order's entry out of the book and deletes *)
(* a level left empty, and leaves the order's filled_quantity, every other *)
(* order, every other book entry and its place in its level, the last      *)
(* price and all trades, ledger entries and positions unchanged            *)
C30_CancelTouchesOneOrder ==
    [][TakesCancel /\ orders[CancelledId].status \in LiveStatuses =>
          /\ orders'[CancelledId].status =
                IF Head(order_queue).cancel_reason = "USER" THEN "CANCELLED"
                ELSE "EXPIRED"
          /\ orders'[CancelledId].cancel_reason = Head(order_queue).cancel_reason
          /\ orders'[CancelledId].filled_quantity
               = orders[CancelledId].filled_quantity
          /\ \A i \in 1..Len(orders) : i # CancelledId => orders'[i] = orders[i]
          /\ Len(orders') = Len(orders)
          /\ bids' = WithoutOrder(bids, CancelledId)
          /\ asks' = WithoutOrder(asks, CancelledId)
          /\ UNCHANGED <<trades, ledger, positions, outbox, last_price_in_cents>>
    ]_vars

(* C30 witness: an order sharing its price level with another one has been *)
(* cancelled by its owner and only the other one is left in the book       *)
C30_Witness ==
    \E i, j \in 1..Len(orders) :
        /\ i # j
        /\ orders[i].status = "CANCELLED"
        /\ orders[i].cancel_reason = "USER"
        /\ orders[i].side = orders[j].side
        /\ orders[i].limit_price = orders[j].limit_price
        /\ i \notin BookIds
        /\ j \in BookIds

(* C31: the events of one channel are sent in created_at order, also when *)
(* several workers run publish_batch concurrently on different batches     *)
(* (no batch has failed, so nothing is sent twice)                         *)
C31_ChannelInCreationOrder ==
    faults = 0 =>
        \A j, l \in 1..Len(channel) : j < l => channel[j] <= channel[l]

(* a level after a fill of quantity against the entry of order_id         *)
RECURSIVE FillInLevel(_, _, _)
FillInLevel(level, order_id, quantity) ==
    IF level = <<>> THEN <<>>
    ELSE IF Head(level).order_id = order_id
    THEN IF Head(level).remaining_quantity = quantity THEN Tail(level)
         ELSE << [Head(level) EXCEPT !.remaining_quantity = @ - quantity] >>
              \o Tail(level)
    ELSE << Head(level) >> \o FillInLevel(Tail(level), order_id, quantity)

(* the makers' side of the book after the first k trades of trs            *)
RECURSIVE AfterTrades(_, _, _)
AfterTrades(book_side, trs, k) ==
    IF k = 0 THEN book_side
    ELSE LET before == AfterTrades(book_side, trs, k - 1)
             t == trs[k]
             level == FillInLevel(before[t.price_in_cents], t.maker_order_id,
                                  t.quantity)
         IN IF level = <<>> THEN DelLevel(before, t.price_in_cents)
            ELSE SetLevel(before, t.price_in_cents, level)

(* the top of the book as it stands after the k-th trade of the message at *)
(* the head of the inbox                                                   *)
BookStateAfterTrade(k) ==
    IF Taker.side = "BUY"
    THEN BookState(bids, AfterTrades(asks, Matched, k))
    ELSE BookState(AfterTrades(bids, Matched, k), asks)

(* C32: the TRADE event of each trade of a committed message carries the   *)
(* top of the book as it stands right after that trade, not after the last *)
(* trade of the message                                                    *)
C32_EventCarriesBookAfterTrade ==
    [][CommitsNewOrder =>
          \A k \in 1..Len(Matched) :
              outbox'[Len(outbox) + k].book = BookStateAfterTrade(k)
    ]_vars

(* the entries of order i in the book                                     *)
EntriesOf(i) ==
    { e \in BookEntries(bids) \cup BookEntries(asks) : e.order_id = i }

C35_PositionArithmetic ==
    [][/\ \A t \in Traders, q \in 1..MaxQty, p \in 1..MaxPrice :
              BuyCall(t, q, p) =>
                 /\ positions'[t].exists
                 /\ positions'[t].quantity = positions[t].quantity + q
                 /\ positions'[t].avg_cost =
                        IF positions[t].exists
                        THEN (positions[t].quantity * positions[t].avg_cost
                              + q * p) \div (positions[t].quantity + q)
                        ELSE p
                 /\ \A u \in Traders \ {t} : positions'[u] = positions[u]
       /\ \A t \in Traders, q \in 1..MaxQty :
              SellCall(t, q) =>
                 IF positions[t].exists /\ positions[t].quantity >= q
                 THEN /\ positions'[t].quantity = positions[t].quantity - q
                      /\ positions'[t].avg_cost = positions[t].avg_cost
                      /\ positions'[t].exists
                      /\ \A u \in Traders \ {t} : positions'[u] = positions[u]
                 ELSE positions' = positions]_vars

(* C35 witness: one position has grown by buys past every quantity a row   *)
(* starts with, at an average cost between two prices, and the other was   *)
(* sold down to nothing, so that any further sale of it raises             *)
C35_Witness ==
    /\ positions["A"].quantity = MaxHeld
    /\ positions["A"].avg_cost \in 1..(MaxPrice - 1)
    /\ positions["B"].exists
    /\ positions["B"].quantity = 0
    /\ \A q \in 1..MaxQty : SellRaises(positions, "B", q)

(* the ledger rows of one account type that a trade has posted             *)
RowsOfTrade(trade_id, account) ==
    { j \in 1..Len(ledger) :
        ledger[j].trade_id = trade_id /\ ledger[j].account = account }

SumOverTraders(bal(_)) == SumInts([k \in 1..2 |-> bal(<<"A", "B">>[k])])

CashOf(t) == GetCashBalance(ledger, t)
SharesOf(t) == GetShareBalance(ledger, t)

(* C36: every committed trade has posted one cash debit and one cash       *)
(* credit of price*quantity and one share debit and one share credit of    *)
(* its quantity, and the cash balances of all traders and their share      *)
(* balances add up to what was issued, whatever has been traded            *)
C36_TradingConservesMoney ==
    /\ \A k \in 1..Len(trades) :
           /\ \E d, c \in RowsOfTrade(trades[k].trade_id, "CASH") :
                  /\ RowsOfTrade(trades[k].trade_id, "CASH") = {d, c}
                  /\ ledger[d].trader_id = trades[k].buyer_id
                  /\ ledger[d].debit = trades[k].price_in_cents * trades[k].quantity
                  /\ ledger[d].credit = 0
                  /\ ledger[c].trader_id = trades[k].seller_id
                  /\ ledger[c].credit = ledger[d].debit
                  /\ ledger[c].debit = 0
           /\ \E d, c \in RowsOfTrade(trades[k].trade_id, "SHARES") :
                  /\ RowsOfTrade(trades[k].trade_id, "SHARES") = {d, c}
                  /\ ledger[d].trader_id = trades[k].buyer_id
                  /\ ledger[d].debit = trades[k].quantity
                  /\ ledger[d].credit = 0
                  /\ ledger[c].trader_id = trades[k].seller_id
                  /\ ledger[c].credit = trades[k].quantity
                  /\ ledger[c].debit = 0
    /\ SumOverTraders(CashOf) = InitCash
    /\ SumOverTraders(SharesOf) = InitShares

(* C36 witness: shares and cash have changed hands between two traders and *)
(* have gone back in a second trade                                        *)
C36_Witness ==
    /\ \E k, l \in 1..Len(trades) :
           /\ k < l
           /\ trades[k].buyer_id = "A" /\ trades[k].seller_id = "B"
           /\ trades[l].buyer_id = "B" /\ trades[l].seller_id = "A"
    /\ Len(ledger) >= Len(InitLedger) + 8
    /\ CashOf("A") = InitCash
    /\ SharesOf("B") = InitShares

(* C37: the book is never crossed: whenever both sides hold orders the     *)
(* best bid is strictly below the best ask, also directly after a startup  *)
(* rebuild that loads durably PENDING orders which were never processed    *)
C37_BookNeverCrossed ==
    (DOMAIN bids # {} /\ DOMAIN asks # {}) =>
        FirstKey(bids, "BUY") < FirstKey(asks, "SELL")

(* C38: each order id appears at most once in the book in every reachable  *)
(* state, also when its NewOrder message is enqueued more than once, as    *)
(* the treasury seeding does for the orders that already rest              *)
C38_OrderOnceInBook ==
    \A i \in 1..Len(orders) : Cardinality(EntriesOf(i)) <= 1

(* what is left to fill of the order of one book entry, by the orders      *)
(* table                                                                   *)
DurableRemaining(order_id) ==
    orders[order_id].quantity - orders[order_id].filled_quantity

DurableDepth(level) ==
    SumInts([k \in 1..Len(level) |-> DurableRemaining(level[k].order_id)])

(* C39: whenever the processor is between messages every entry resting in  *)
(* the book has a remaining_quantity above zero that equals quantity -     *)
(* filled_quantity of its order, no price level has an empty queue, and    *)
(* the depth the snapshot shows at each price is the sum of quantity -     *)
(* filled_quantity of the orders resting at that price                     *)
C39_BookAgreesWithOrders ==
    /\ \A e \in BookEntries(bids) \cup BookEntries(asks) :
           /\ e.remaining > 0
           /\ e.remaining = DurableRemaining(e.order_id)
    /\ \A p \in DOMAIN bids : bids[p] # <<>>
    /\ \A p \in DOMAIN asks : asks[p] # <<>>
    /\ \A p \in DOMAIN bids : GetOrderBookSnapshot.bids[p] = DurableDepth(bids[p])
    /\ \A p \in DOMAIN asks : GetOrderBookSnapshot.asks[p] = DurableDepth(asks[p])

(* C40: no trader's ledger cash balance is negative in a committed state,  *)
(* after any sequence of accepted orders, each validated on its own, and   *)
(* of the trades that result                                               *)
C40_CashNeverNegative ==
    \A t \in Traders : GetCashBalance(ledger, t) >= 0

====
